---- MODULE Spec2Model ----
(***************************************************************************)
(* Model of jeepyb's project reconciliation (cmd/manage_projects.py main), *)
(* the metadata-branch transaction (gerrit/gerritapi.py GerritMetaUpdater),*)
(* the checkout strategies (GerritCheckout) and the change cache           *)
(* (jeepyb_settings.py).                                                   *)
(*                                                                         *)
(* The review service, the hosting service and git are external: a remote  *)
(* call (clone, fetch, push, create-project, ...) has a nondeterministic   *)
(* outcome; checkout, branch, reset and diff-index are functions of the     *)
(* working copy they run in (checkout of a branch succeeds iff the branch  *)
(* exists; every command fails when the working copy directory does not    *)
(* exist); a commit may fail.                                              *)
(***************************************************************************)
EXTENDS Integers, Sequences, FiniteSets, TLC

\* ---------------------------------------------------------------- bounds
NumProjects == 2
MaxRuns == 2

\* ------------------------------------------------------ program constants
\* range(10) of both polling loops of fetch_meta_config
FetchAttempts == 10
\* retries=10 of _get_group_uuid
GroupRetries == 10

Projects == 1..NumProjects

\* GERRIT_SYSTEM_GROUPS (only the names matter here)
GERRIT_SYSTEM_GROUPS == {"Anonymous Users", "Project Owners", "Registered Users", "Change Owner"}

\* the one non-system group name the ACL and group files of the model use
GroupNames == {"core"}

\* ------------------------------------------------------- python values
\* a cache field holding a value: absent, a hex digest (str) or a dict
Absent == [kind |-> "absent", v |-> 0]
StrV(h) == [kind |-> "str", v |-> h]
DictV(h) == [kind |-> "dict", v |-> h]

\* content digests of the files of project p (generate_sha_for_dir)
AclSha(p) == 10 * p + 1
GroupSha(p) == 10 * p + 2
PrologSha(p) == 10 * p + 3

\* ================================================== generate_sha_for_dir
\* A directory tree under the root is a set of entries.  A path is a
\* sequence of components; a component is its name without the leading dot
\* and the extension, whether it starts with a dot, and its extension.
Comp(stem, hidden, ext) == [stem |-> stem, hidden |-> hidden, ext |-> ext]
Entry(path, kind, content) == [path |-> path, kind |-> kind, content |-> content]

\* sha256(...).hexdigest() of a content: an injective map of the contents
Digest(c) == 10 * c + 1

\* fnmatch of one component against '*' (ext = "") or '*<ext>': a name
\* that starts with a dot is not matched by a pattern that starts with '*'
FnMatch(comp, ext) == ~comp.hidden /\ (ext = "" \/ comp.ext = ext)

\* variant of GlobMatch: names that start with a dot are matched as well
GlobMatch_with_hidden(e, ext) ==
    /\ Len(e.path) = 2
    /\ e.path[2].ext = ext

\* glob.glob(os.path.join(path, '*/*%s' % extension)) selects e
GlobMatch(e, ext) ==
    /\ Len(e.path) = 2
    /\ FnMatch(e.path[1], "")
    /\ FnMatch(e.path[2], ext)

\* the orders in which glob can return the set S
Orders(S) ==
    {o \in [1..Cardinality(S) -> S] : \A i, j \in 1..Cardinality(S) : o[i] = o[j] => i = j}

\* the loop of generate_sha_for_dir over the list of glob, in its order;
\* open() of a directory raises
RECURSIVE ShaLoop(_, _)
ShaLoop(files, sha_map) ==
    IF files = <<>> THEN [raised |-> FALSE, map |-> sha_map]
    ELSE IF Head(files).kind # "file" THEN [raised |-> TRUE, map |-> <<>>]
    ELSE ShaLoop(Tail(files),
                 [k \in DOMAIN sha_map \cup {Head(files).path} |->
                     IF k = Head(files).path THEN Digest(Head(files).content)
                     ELSE sha_map[k]])

\* generate_sha_for_dir(path, extension) on the tree, glob listing in order
generate_sha_for_dir(tree, ext, order) ==
    ShaLoop([i \in 1..Len(order) |-> order[i]], <<>>)

\* the entries the trees of the model are made of
AclFile(c) == Entry(<<Comp("org", FALSE, ""), Comp("a", FALSE, ".config")>>, "file", c)
OtherAclFile(c) == Entry(<<Comp("org", FALSE, ""), Comp("b", FALSE, ".config")>>, "file", c)
Contents == {1, 2}
FixedEntries ==
    { Entry(<<Comp("org", FALSE, ""), Comp("b", FALSE, ".yaml")>>, "file", 1),
      Entry(<<Comp("attic", TRUE, ""), Comp("a", FALSE, ".config")>>, "file", 1),
      Entry(<<Comp("org", FALSE, ""), Comp("a", TRUE, ".config")>>, "file", 1),
      Entry(<<Comp("top", FALSE, ".config")>>, "file", 1),
      Entry(<<Comp("org", FALSE, ""), Comp("sub", FALSE, ""), Comp("a", FALSE, ".config")>>,
            "file", 1),
      Entry(<<Comp("org", FALSE, ""), Comp("d", FALSE, ".config")>>, "dir", 0) }
Trees ==
    { F \cup A \cup B : F \in SUBSET FixedEntries,
                        A \in {{}} \cup {{AclFile(c)} : c \in Contents},
                        B \in {{}} \cup {{OtherAclFile(c)} : c \in Contents} }
Extensions == {".config", ".yaml"}

\* the files of a Driver run: one ACL file per project
DriverFiles ==
    [tree |-> {Entry(<<Comp("org", FALSE, ""), Comp(p, FALSE, ".config")>>, "file", p) :
                 p \in Projects},
     ext |-> ".config"]
NoShaCache == [raised |-> FALSE, map |-> <<>>]

\* the arguments of one call of GerritAPI.create_group (after 'or []')
Call(name, members, subgroups, ldap_groups) ==
    [name |-> name, members |-> members, subgroups |-> subgroups, ldap_groups |-> ldap_groups]
NoCall == Call("none", {}, {}, {})



\* a project's record of the change cache; present = the key exists
\* the defaults of has-issues, has-downloads and has-wiki
DefaultHas == [issues |-> FALSE, downloads |-> FALSE, wiki |-> FALSE]
NoRecord == [present |-> FALSE, created |-> "absent", pushed |-> "absent",
             acl |-> Absent, groups |-> Absent, prolog |-> Absent,
             ghCreated |-> FALSE, ghTeam |-> FALSE,
             ghHas |-> [present |-> FALSE, v |-> DefaultHas]]
EmptyRecord == [NoRecord EXCEPT !.present = TRUE]

\* a working copy (a directory bound to one project's git object store)
\*   upstream_url: URL of the remote 'upstream' ("none", "configured": the
\*     project's upstream, "stale": another URL)
\*   upstream_refs, origin_refs: branches under remotes/upstream and
\*     remotes/origin; origin_head: the branch refs/remotes/origin/HEAD
\*     points to, as path components (<<>>: not set); upstream_head: the
\*     same for refs/remotes/upstream/HEAD
\*   ahead: local branches that differ from the remote branch of their name
NoWC == [exists |-> FALSE, head |-> "none", branches |-> {}, pending |-> {},
         committed |-> {}, remotes |-> {}, fetched |-> FALSE, user |-> FALSE,
         upstream_url |-> "none", upstream_refs |-> {}, origin_refs |-> {},
         origin_head |-> <<>>, upstream_head |-> <<>>, ahead |-> {}]

\* a project declaration (one entry of projects.yaml)
\*   acl: "none" (no matching ACL file), "plain" (no group referenced),
\*        "groups" (references the group core and a system group)
\*   github: 'has-github' (option or default); hasIssues: option 'has-issues'
\*   track: option 'track-upstream'; prefix: 'upstream-prefix' is set
Decl(ng, up, acl, gr, pl, gh, hi, tr, px) ==
    [noGerrit |-> ng, upstream |-> up, acl |-> acl, groups |-> gr, prolog |-> pl,
     github |-> gh, hasIssues |-> hi, track |-> tr, prefix |-> px]
\* a project with an ACL file that references no group, and nothing else
PlainProject == Decl(FALSE, FALSE, "plain", FALSE, FALSE, FALSE, FALSE, FALSE, FALSE)
\* the declarations the first project of the model is drawn from
Declarations ==
    { Decl(FALSE, TRUE, "groups", TRUE, TRUE, TRUE, TRUE, TRUE, FALSE),
      PlainProject,
      Decl(FALSE, FALSE, "none", FALSE, TRUE, FALSE, FALSE, FALSE, FALSE),
      Decl(TRUE, FALSE, "plain", FALSE, FALSE, FALSE, FALSE, FALSE, FALSE) }
\* the declared lists of the model: one project drawn from Declarations,
\* followed by plain projects
DeclaredLists ==
    { [p \in 1..NumProjects |-> IF p = 1 THEN d ELSE PlainProject] : d \in Declarations }
\* the command-line filters of the model: none, or the first project only
Filters == {{}, {1}}

NoTxn == [kind |-> "none", current_head |-> "master", attempt |-> 0,
          raised |-> "none", result |-> "none", lookups |-> 0, created |-> {}]

VARIABLES
    decl,         \* declared projects (configs_list), fixed for all runs
    filter,       \* args.projects
    replicate,    \* settings.gerrit_replicate
    nocleanup,    \* args.nocleanup
    fs,           \* a configuration directory and the extension hashed in it
    sha_cache,    \* the result of generate_sha_for_dir on it
    call,         \* the arguments of a call of create_group
    groupMembers, \* the members and included groups of the groups of the service
    run,          \* number of the current (or last) Driver run
    pc,           \* position of the Driver
    idx,          \* index of the project being processed
    visited,      \* projects entered in this run, in order
    ssh_wrappers, \* temporary SSH-wrapper scripts present on disk
    cache,        \* settings.project_cache (in memory)
    cacheFile,    \* the persisted project.cache
    gerritRepo,   \* review service: "absent", "empty" or "content" per project
    metaAcl,      \* digest of project.config at refs/meta/config (0: default)
    metaRules,    \* digest of rules.pl at refs/meta/config (0: none)
    gerritGroups, \* live group listing of the review service
    mirror,       \* local bare mirror exists
    wc,           \* working copy per project
    txn,          \* the GerritMetaUpdater in use
    checkout,     \* the GerritCheckout of the current project (see NoCheckout)
    exc,          \* why the current project was left early ("none" if not)
    ev            \* operations performed for the current project, in order

vars == <<decl, filter, replicate, nocleanup, fs, sha_cache, call, groupMembers, run, pc, idx, visited, cache, cacheFile,
          gerritRepo, metaAcl, metaRules, gerritGroups, mirror, wc, checkout, txn,
          exc, ev, ssh_wrappers>>

config == <<decl, filter, replicate, nocleanup, fs, sha_cache, call, groupMembers>>
remote == <<gerritRepo, metaAcl, metaRules, gerritGroups>>


\* ------------------------------------------------------------ python / git
\* the characters of 'push %s HEAD:refs/heads/master' (a python str)
PUSH_HEAD == <<"p","u","s","h"," ","%","s"," ","H","E","A","D",":","r","e","f","s",
               "/","h","e","a","d","s","/","m","a","s","t","e","r">>
\* the characters of 'push %s +refs/copy/heads/*:refs/heads/*' (a python str)
PUSH_COPY == <<"p","u","s","h"," ","%","s"," ","+","r","e","f","s","/","c","o","p","y",
               "/","h","e","a","d","s","/","*",":","r","e","f","s","/","h","e","a","d","s","/","*">>
\* None, the result of the clone strategy
NoPush == <<>>

\* what is known of the GerritCheckout of the current project: the last
\* make_local_copy (listed: the project was in gerrit_api.projects; clone:
\* outcome of the clone of the review service, "none" if not run; committer:
\* whether the identity was set when make_local_copy committed, "none" if it
\* did not commit) and the last fsck_repo (rc, warning, fsck)
NoCheckout == [listed |-> FALSE, clone |-> "none", strategy |-> "none",
               push_string |-> NoPush, committer |-> "none",
               rc |-> 0, warning |-> FALSE, fsck |-> "none"]

\* get_remote_url: the URL is kept as one opaque token
RemoteUrl(p) == "ssh://user@host:29418/project"

\* s % arg for a str s with one '%s'
RECURSIVE PyFormat(_, _)
PyFormat(s, arg) ==
    IF Len(s) = 0 THEN <<>>
    ELSE IF Len(s) >= 2 /\ s[1] = "%" /\ s[2] = "s"
         THEN <<arg>> \o SubSeq(s, 3, Len(s))
         ELSE <<s[1]>> \o PyFormat(Tail(s), arg)

\* git_command_output: argv = ['git', --git-dir, --work-tree] + list(sub_cmd).
\* list() of a str is its characters, list() of a list its elements: both are
\* the sequence itself here, so a str starts with a one-character word.
GitSubcommand(sub_cmd) == Head(sub_cmd)

\* status of a remote git command (fetch, push, remote update) run in w
GitRemoteStatus(w, sub_cmd, name, netOk) ==
    IF w.exists /\ GitSubcommand(sub_cmd) = name /\ netOk THEN 0 ELSE 1

\* git rev-parse --abbrev-ref HEAD
RevParseHead(w) ==
    IF w.exists /\ w.head \in w.branches
    THEN [st |-> 0, out |-> w.head]
    ELSE [st |-> 128, out |-> "fatal"]

\* git checkout <branch>
GitCheckout(w, b) ==
    IF w.exists /\ b \in w.branches THEN [w EXCEPT !.head = b] ELSE w

\* git checkout -B config remotes/gerrit-meta/config
GitCheckoutB(w) ==
    [st |-> IF w.exists /\ w.fetched THEN 0 ELSE 1,
     w |-> IF w.exists /\ w.fetched
           THEN [w EXCEPT !.head = "config", !.branches = @ \cup {"config"},
                          !.committed = {}]
           ELSE w]

\* git branch -D <branch>
GitBranchD(w, b) ==
    IF w.exists /\ b \in w.branches /\ w.head # b
    THEN [w EXCEPT !.branches = @ \ {b}] ELSE w

\* git reset --hard
GitResetHard(w) == [w EXCEPT !.pending = {}]

\* git diff-index --quiet HEAD --
DiffIndexQuiet(w) ==
    IF ~w.exists THEN 128 ELSE IF w.pending = {} THEN 0 ELSE 1

\* git commit -a
GitCommitAll(w, ok) ==
    IF w.exists /\ ok
    THEN [st |-> 0, w |-> [w EXCEPT !.committed = @ \cup w.pending, !.pending = {},
                                    !.branches = @ \cup {w.head}]]
    ELSE [st |-> 1, w |-> w]

\* shutil.copy + git add of one file into the working copy
StageFile(w, f, changed) ==
    IF changed THEN [w EXCEPT !.pending = @ \cup {f}] ELSE w

\* u.remove_dir_if_exists(section.repo_path)
RemoveDirIfExists(w) == NoWC

\* ------------------------------------------------------------- settings
\* JeepybProjectConfig.cache
Cache(p) == cache[p]
\* variant of gerrit_replicate: the option is not read, replication is on
gerrit_replicate_always == TRUE

\* JeepybSettings.gerrit_replicate
gerrit_replicate == replicate

\* variant of already_created: any recorded outcome counts as created
already_created_key_present(p) == cache[p].created # "absent"
\* JeepybProjectConfig.already_created
already_created(p) == cache[p].created = "true"
\* variant of cache_pushed_to_gerrit: the record is read under another key
cache_pushed_to_gerrit_wrong_key(p) == FALSE

\* JeepybProjectConfig.cache_pushed_to_gerrit
cache_pushed_to_gerrit(p) == cache[p].pushed = "true"
\* GerritAPI.projects
GerritProjects == {p \in Projects : gerritRepo[p] # "absent"}

Push(e) == ev' = ev \o e

\* ------------------------------------------------------------------ Init
DriverInit(nc) ==
    /\ decl \in DeclaredLists
    /\ filter \in Filters
    /\ replicate \in BOOLEAN
    /\ nocleanup = nc
    /\ fs = DriverFiles
    /\ sha_cache = generate_sha_for_dir(DriverFiles.tree, DriverFiles.ext,
                       CHOOSE o \in Orders({e \in DriverFiles.tree : GlobMatch(e, DriverFiles.ext)}) : TRUE)
    /\ call = NoCall
    /\ groupMembers = {}
    /\ run = 0
    /\ pc = "idle"
    /\ idx = 0
    /\ visited = <<>>
    /\ cache = [p \in Projects |-> NoRecord]
    /\ cacheFile = [p \in Projects |-> NoRecord]
    /\ gerritRepo \in {[p \in Projects |-> IF p = 1 THEN r ELSE "absent"] : r \in {"absent", "content"}}
    /\ metaAcl \in IF decl[1].acl = "groups" /\ gerritRepo[1] = "content"
                  THEN {[p \in Projects |-> IF p = 1 THEN a ELSE 0] : a \in {0, AclSha(1)}}
                  ELSE {[p \in Projects |-> 0]}
    /\ metaRules = [p \in Projects |-> 0]
    /\ gerritGroups \in IF decl[1].acl = "groups" THEN {{}, GroupNames} ELSE {{}}
    /\ mirror = [p \in Projects |-> FALSE]
    /\ wc = [p \in Projects |-> NoWC]
    /\ checkout = NoCheckout
    /\ ssh_wrappers = {}
    /\ txn = NoTxn
    /\ exc = "none"
    /\ ev = <<>>

\* manage_projects without --nocleanup
Init == DriverInit(FALSE)

\* manage_projects --nocleanup
NoCleanupInit == DriverInit(TRUE)

\* ---------------------------------------------------------------- Driver
\* main(): JeepybSettings() loads the cache file; 'with settings' starts the loop
\* the temporary script written by make_ssh_wrapper, named by the object
\* that keeps its path in ssh_env and the run that created it
make_ssh_wrapper(owner, r) == [owner |-> owner, run |-> r]

\* the environment of the git invocations of GerritCheckout and
\* GerritMetaUpdater: gerrit_api.ssh_env
GitSshEnv(r) == make_ssh_wrapper("GerritAPI", r)

StartRun ==
    /\ pc = "idle"
    /\ run < MaxRuns
    /\ run' = run + 1
    /\ cache' = cacheFile
    /\ idx' = 1
    /\ visited' = <<>>
    /\ ssh_wrappers' = ssh_wrappers \cup {make_ssh_wrapper("JeepybSettings", run + 1),
                                             make_ssh_wrapper("GerritAPI", run + 1)}
    /\ pc' = "enter"
    /\ UNCHANGED <<config, checkout, cacheFile, remote, mirror, wc, txn, exc, ev>>

\* variant of EnterProject: the 'no-gerrit' option is not looked at
EnterProject_ignores_no_gerrit ==
    /\ pc = "enter"
    /\ idx <= NumProjects
    /\ cache' = [cache EXCEPT ![idx] = [@ EXCEPT !.present = TRUE]]
    /\ visited' = Append(visited, idx)
    /\ IF filter # {} /\ idx \notin filter
       THEN pc' = "exit" /\ exc' = "skipped"
       ELSE pc' = "create" /\ exc' = "none"
    /\ UNCHANGED <<config, ssh_wrappers, checkout, run, idx, cacheFile, remote, mirror, wc, txn, ev>>

\* configs_list[idx] -> JeepybProjectConfig(): setdefault of the cache record;
\* then the filter and no-gerrit checks of main
EnterProject ==
    /\ pc = "enter"
    /\ idx <= NumProjects
    /\ cache' = [cache EXCEPT ![idx] = [@ EXCEPT !.present = TRUE]]
    /\ visited' = Append(visited, idx)
    /\ IF (filter # {} /\ idx \notin filter) \/ decl[idx].noGerrit
       THEN pc' = "exit" /\ exc' = "skipped"
       ELSE pc' = "create" /\ exc' = "none"
    /\ UNCHANGED <<config, ssh_wrappers, checkout, run, idx, cacheFile, remote, mirror, wc, txn, ev>>

\* configs_list[idx] raises IndexError: the loop ends
EndLoop ==
    /\ pc = "enter"
    /\ idx > NumProjects
    /\ pc' = "flush"
    /\ UNCHANGED <<config, ssh_wrappers, checkout, run, idx, visited, cache, cacheFile, remote, mirror, wc, txn, exc, ev>>

\* variant of CreatedFlag: the failure of the creation is not recorded
CreatedFlag_lost(outcome) == "true"

\* the value of 'project-created' after a creation attempt
CreatedFlag(outcome) == IF outcome = "raise" THEN "false" ELSE "true"

\* step 2: create_gerrit_project and the try/except of main around it
CreateStep ==
    /\ pc = "create"
    /\ LET p == idx IN
       IF already_created(p)
       THEN /\ pc' = "push"
            /\ UNCHANGED <<cache, gerritRepo, exc, ev>>
       ELSE IF p \in GerritProjects
       THEN /\ cache' = [cache EXCEPT ![p].created = "true"]
            /\ pc' = "push"
            /\ UNCHANGED <<gerritRepo, exc, ev>>
       ELSE \E outcome \in {"empty", "raise"} :
            /\ cache' = [cache EXCEPT ![p].created = CreatedFlag(outcome)]
            /\ IF outcome = "raise"
               THEN /\ Push(<<"create_project", "create_failed">>)
                    /\ pc' = "exit"
                    /\ exc' = "create_failed"
                    /\ UNCHANGED gerritRepo
               ELSE /\ Push(<<"create_project">>)
                    /\ gerritRepo' = [gerritRepo EXCEPT ![p] = outcome]
                    /\ pc' = "push"
                    /\ UNCHANGED exc
    /\ UNCHANGED <<config, ssh_wrappers, checkout, run, idx, visited, cacheFile, metaAcl, metaRules,
                   gerritGroups, mirror, wc, txn>>


\* ------------------------------------------------------ GerritCheckout
\* a working copy right after a successful 'git clone' of the review service
ClonedFromGerrit(p) ==
    [NoWC EXCEPT !.exists = TRUE, !.head = "master",
                 !.branches = IF gerritRepo[p] = "content" THEN {"master"} ELSE {},
                 !.remotes = {"origin"},
                 !.origin_refs = IF gerritRepo[p] = "content" THEN {"master"} ELSE {},
                 !.origin_head = IF gerritRepo[p] = "content" THEN <<"master">> ELSE <<>>]

\* a working copy right after a successful 'git clone' of the upstream
ClonedFromUpstream ==
    [NoWC EXCEPT !.exists = TRUE, !.head = "master", !.branches = {"master"},
                 !.remotes = {"origin"},
                 !.origin_refs = {"master", "stable"}, !.origin_head = <<"master">>]

\* a working copy right after a successful 'git init'
Initialized == [NoWC EXCEPT !.exists = TRUE, !.head = "master"]

\* git remote add <name> <url>
GitRemoteAdd(w, name) ==
    IF w.exists /\ name \notin w.remotes
    THEN [w EXCEPT !.remotes = @ \cup {name},
                   !.upstream_url = IF name = "upstream" THEN "configured" ELSE @]
    ELSE w

\* git remote rename <old> <new>
GitRemoteRename(w, old, new) ==
    IF w.exists /\ old \in w.remotes
    THEN [w EXCEPT !.remotes = (@ \ {old}) \cup {new},
                   !.upstream_url = "configured",
                   !.upstream_refs = w.origin_refs,
                   !.upstream_head = w.origin_head,
                   !.origin_refs = {}, !.origin_head = <<>>]
    ELSE w

\* variant of change_user: the identity is left as it is
change_user_noop(w) == w

\* GerritCheckout.change_user: git config user.name / user.email
change_user(w) == IF w.exists THEN [w EXCEPT !.user = TRUE] ELSE w

\* GerritCheckout.make_local_copy; clone: outcome of the run_command that
\* clones the review service, second: outcome of the run_command of the
\* strategy taken after it ("ok", "fail": non-zero exit, "raise": Popen raised)
MakeLocalCopy(p, clone, second, commitOk) ==
    LET listed == p \in GerritProjects
        seen == IF listed THEN clone ELSE "none"
    IN
    IF listed /\ clone # "raise"
    THEN LET w0 == IF clone = "ok" THEN ClonedFromGerrit(p) ELSE NoWC
             w1 == IF decl[p].upstream THEN GitRemoteAdd(w0, "upstream") ELSE w0
         IN  [raised |-> FALSE, push_string |-> NoPush, strategy |-> "gerrit",
              listed |-> listed, clone |-> seen, committer |-> "none",
              w |-> change_user(w1)]
    ELSE IF decl[p].upstream
    THEN LET w0 == IF second = "ok" THEN ClonedFromUpstream ELSE NoWC
             w1 == GitRemoteAdd(GitRemoteRename(w0, "origin", "upstream"), "origin")
         IN  [raised |-> second = "raise", strategy |-> "upstream",
              push_string |-> IF second = "raise" THEN NoPush ELSE PUSH_COPY,
              listed |-> listed, clone |-> seen, committer |-> "none",
              w |-> IF second = "raise" THEN NoWC ELSE change_user(w1)]
    ELSE LET w0 == IF second = "ok" THEN Initialized ELSE NoWC
             w1 == change_user(w0)
             w2 == StageFile(GitRemoteAdd(w1, "origin"), ".gitreview", TRUE)
         IN  \* open(.gitreview, 'w') raises when git init left no directory
             IF ~w0.exists
             THEN [raised |-> TRUE, push_string |-> NoPush, strategy |-> "init",
                   listed |-> listed, clone |-> seen, committer |-> "none", w |-> NoWC]
             ELSE [raised |-> FALSE, push_string |-> PUSH_HEAD, strategy |-> "init",
                   listed |-> listed, clone |-> seen,
                   committer |-> IF w2.user THEN "set" ELSE "unset",
                   w |-> GitCommitAll(w2, commitOk).w]

\* variant of FsckRaises: the warning in the output is not looked at
FsckRaises_rc_only(w, rc, zeroPadded) == ~w.exists \/ rc # 0

\* GerritCheckout.fsck_repo: TRUE when it raises
FsckRaises(w, rc, zeroPadded) == ~w.exists \/ rc # 0 \/ zeroPadded

\* GerritCheckout.push_to_gerrit: the two pushes, statuses ignored
PushToGerrit(p, w, push_string, netOk, tagsOk) ==
    [spec |-> GitRemoteStatus(w, PyFormat(push_string, RemoteUrl(p)), "push", netOk),
     tags |-> GitRemoteStatus(w, <<"push", "--tags", RemoteUrl(p)>>, "push", tagsOk)]

\* outcomes of an external call; the ones that cannot matter are not drawn
Outcomes(relevant) == IF relevant THEN {"ok", "fail", "raise"} ELSE {"ok"}
Flags(relevant) == IF relevant THEN BOOLEAN ELSE {TRUE}

\* step 3 of main: import of the project into the review service
PushStep ==
    /\ pc = "push"
    /\ LET p == idx IN
       IF cache_pushed_to_gerrit(p)
       THEN /\ pc' = "mirror"
            /\ UNCHANGED <<cache, gerritRepo, wc, checkout, exc, ev>>
       ELSE \E clone \in Outcomes(p \in GerritProjects) :
            \E second \in Outcomes(p \notin GerritProjects \/ clone = "raise") :
            \E commitOk \in Flags(second = "ok" /\ ~decl[p].upstream
                                  /\ (p \notin GerritProjects \/ clone = "raise")) :
            LET m == MakeLocalCopy(p, clone, second, commitOk) IN
            \E rc \in IF m.w.exists THEN {0, 1} ELSE {128} :
            \E zeroPadded \in IF rc = 0 THEN BOOLEAN ELSE {FALSE} :
            LET bad == FsckRaises(m.w, rc, zeroPadded)
                does_push == ~m.raised /\ ~bad /\ m.push_string # NoPush
                made == [NoCheckout EXCEPT !.listed = m.listed, !.clone = m.clone,
                                           !.strategy = m.strategy,
                                           !.push_string = m.push_string,
                                           !.committer = m.committer]
            IN
            \E netOk \in Flags(does_push), tagsOk \in Flags(does_push) :
            LET st == PushToGerrit(p, m.w, m.push_string, netOk, tagsOk)
                e1 == <<"remove_wc", "make_local_copy">>
                e2 == e1 \o <<IF m.w.exists /\ rc = 0 /\ ~zeroPadded
                              THEN "fsck_clean" ELSE "fsck_bad">>
                e3 == IF m.push_string # NoPush
                      THEN e2 \o <<IF st.spec = 0 THEN "import_push_ok" ELSE "import_push_failed">>
                      ELSE e2 \o <<"cloned">>
                e4 == e3 \o <<"set_pushed">>
            IN  /\ wc' = [wc EXCEPT ![p] = m.w]
                /\ IF m.raised
                   THEN /\ Push(e1 \o <<"make_local_copy_raised">>)
                        /\ checkout' = made
                        /\ pc' = "exit" /\ exc' = "make_local_copy"
                        /\ UNCHANGED <<cache, gerritRepo>>
                   ELSE IF bad
                   THEN /\ Push(e2)
                        /\ checkout' = [made EXCEPT !.rc = rc, !.warning = zeroPadded,
                                                    !.fsck = "raised"]
                        /\ pc' = "exit" /\ exc' = "fsck"
                        /\ UNCHANGED <<cache, gerritRepo>>
                   ELSE /\ gerritRepo' = IF m.push_string # NoPush /\ st.spec = 0
                                         THEN [gerritRepo EXCEPT ![p] = "content"]
                                         ELSE gerritRepo
                        /\ checkout' = [made EXCEPT !.rc = rc, !.warning = zeroPadded,
                                                    !.fsck = "passed"]
                        /\ cache' = [cache EXCEPT ![p].pushed = "true"]
                        /\ IF gerrit_replicate
                           THEN Push(e4 \o <<"replicate">>)
                           ELSE Push(e4)
                        /\ pc' = "mirror" /\ UNCHANGED exc
    /\ UNCHANGED <<config, ssh_wrappers, run, idx, visited, cacheFile, metaAcl, metaRules,
                   gerritGroups, mirror, txn>>

\* variant of CreateLocalMirror: the existence test is left out
CreateLocalMirror_always_init(exists, ret) ==
    IF ret # 0
    THEN [exists |-> FALSE, raised |-> TRUE,
          did |-> <<"git_bare_init", "remove_mirror_dir">>]
    ELSE [exists |-> TRUE, raised |-> FALSE, did |-> <<"git_bare_init">>]

\* GerritCheckout.create_local_mirror: exists says whether the mirror path
\* is there, ret is the exit status of 'git --bare init'
CreateLocalMirror(exists, ret) ==
    IF exists
    THEN [exists |-> TRUE, raised |-> FALSE, did |-> <<>>]
    ELSE IF ret # 0
         THEN [exists |-> FALSE, raised |-> TRUE,
               did |-> <<"git_bare_init", "remove_mirror_dir">>]
         ELSE [exists |-> TRUE, raised |-> FALSE, did |-> <<"git_bare_init">>]

\* step 4: GerritCheckout.create_local_mirror
MirrorStep ==
    /\ pc = "mirror"
    /\ \E ret \in {0, 1} :
         LET m == CreateLocalMirror(mirror[idx], ret) IN
         /\ Push(<<"create_local_mirror">> \o m.did)
         /\ mirror' = [mirror EXCEPT ![idx] = m.exists]
         /\ IF m.raised
            THEN pc' = "exit" /\ exc' = "mirror"
            ELSE pc' = "acl" /\ UNCHANGED exc
    /\ UNCHANGED <<config, ssh_wrappers, checkout, run, idx, visited, cache, cacheFile, remote, wc, txn>>


\* ------------------------------------------------- GerritMetaUpdater
\* variant of AclDue: the cached hash is not consulted
AclDue_always(p) == decl[p].acl # "none"

\* the ACL file differs from the cached hash: process_acls is due
AclDue(p) == decl[p].acl # "none" /\ cache[p].acl # StrV(AclSha(p))
\* the rules file differs from the cached hash: process_prolog_rules is due
PrologDue(p) == decl[p].prolog /\ cache[p].prolog # StrV(PrologSha(p))
\* the groups file differs from the cached hash: create_groups is due
GroupsDue(p) == decl[p].groups /\ cache[p].groups # StrV(GroupSha(p))

\* GerritMetaUpdater.__init__ and the first lines of __enter__
MetaUpdaterEnter(kind, w) ==
    LET r == RevParseHead(w) IN
    [NoTxn EXCEPT !.kind = kind,
                  !.current_head = IF r.st = 0 /\ r.out # "" THEN r.out ELSE "master"]

\* step 5a of main: process_acls up to the start of fetch_meta_config
AclStep ==
    /\ pc = "acl"
    /\ IF AclDue(idx)
       THEN /\ txn' = MetaUpdaterEnter("acl", wc[idx])
            /\ Push(<<"process_acls">>)
            /\ pc' = "txn_fetch"
       ELSE /\ pc' = "groups"
            /\ UNCHANGED <<txn, ev>>
    /\ UNCHANGED <<config, ssh_wrappers, checkout, run, idx, visited, cache, cacheFile, remote, mirror, wc, exc>>

\* variant of LoopExhausted: the loop gives up at the first failed attempt
LoopExhausted_first_failure(attempt) == TRUE

\* 'for x in range(10)': no iteration is left after the one numbered attempt
\* (from 0), so the else branch of the loop is taken
LoopExhausted(attempt) == attempt + 1 >= FetchAttempts

\* variant of TxnFetch: the first loop has no else branch, the second loop
\* follows its last failed attempt
TxnFetch_no_else ==
    /\ pc = "txn_fetch"
    /\ \E netOk \in BOOLEAN :
       LET st == GitRemoteStatus(wc[idx], <<"fetch", RemoteUrl(idx), "+refs/meta/config">>,
                                 "fetch", netOk /\ idx \in GerritProjects)
       IN  IF st = 0
           THEN /\ wc' = [wc EXCEPT ![idx].fetched = TRUE]
                /\ txn' = [txn EXCEPT !.attempt = 0]
                /\ pc' = "txn_ls"
                /\ Push(<<"fetch_ok">>)
                /\ UNCHANGED exc
           ELSE IF ~LoopExhausted(txn.attempt)
           THEN /\ txn' = [txn EXCEPT !.attempt = @ + 1]
                /\ UNCHANGED <<wc, pc, exc, ev>>
           ELSE /\ txn' = [txn EXCEPT !.attempt = 0]
                /\ pc' = "txn_ls"
                /\ UNCHANGED <<wc, exc, ev>>
    /\ UNCHANGED <<config, ssh_wrappers, checkout, run, idx, visited, cache, cacheFile, remote, mirror>>

\* fetch_meta_config, one iteration of the first loop (and its else branch)
TxnFetch ==
    /\ pc = "txn_fetch"
    /\ \E netOk \in BOOLEAN :
       LET st == GitRemoteStatus(wc[idx], <<"fetch", RemoteUrl(idx), "+refs/meta/config">>,
                                 "fetch", netOk /\ idx \in GerritProjects)
       IN  IF st = 0
           THEN /\ wc' = [wc EXCEPT ![idx].fetched = TRUE]
                /\ txn' = [txn EXCEPT !.attempt = 0]
                /\ pc' = "txn_ls"
                /\ Push(<<"fetch_ok">>)
                /\ UNCHANGED exc
           ELSE IF ~LoopExhausted(txn.attempt)
           THEN /\ txn' = [txn EXCEPT !.attempt = @ + 1]
                /\ UNCHANGED <<wc, pc, exc, ev>>
           ELSE /\ txn' = [txn EXCEPT !.attempt = @ + 1, !.raised = "FetchConfigException"]
                /\ pc' = "exit" /\ exc' = "FetchConfigException"
                /\ Push(<<"FetchConfigException">>)
                /\ UNCHANGED wc
    /\ UNCHANGED <<config, ssh_wrappers, checkout, run, idx, visited, cache, cacheFile, remote, mirror>>

\* variant of TxnLs: the exception of fetch_meta_config is handled like one
\* of the body, by __exit__ of the transaction
TxnLs_exit_runs ==
    /\ pc = "txn_ls"
    /\ \E netOk \in BOOLEAN, present \in BOOLEAN :
       LET st == GitRemoteStatus(wc[idx], <<"remote", "update", "--prune">>, "remote", netOk)
           co == GitCheckoutB(wc[idx])
       IN  IF st = 0 /\ present
           THEN /\ wc' = [wc EXCEPT ![idx] = co.w]
                /\ IF co.st # 0
                   THEN /\ txn' = [txn EXCEPT !.raised = "FetchConfigException"]
                        /\ pc' = "txn_exit" /\ UNCHANGED exc
                        /\ Push(<<"ls_ok", "FetchConfigException">>)
                   ELSE /\ txn' = [txn EXCEPT !.attempt = 0]
                        /\ pc' = "txn_body"
                        /\ Push(<<"ls_ok", "checkout_config">>)
                        /\ UNCHANGED exc
           ELSE IF ~LoopExhausted(txn.attempt)
           THEN /\ txn' = [txn EXCEPT !.attempt = @ + 1]
                /\ UNCHANGED <<wc, pc, exc, ev>>
           ELSE /\ txn' = [txn EXCEPT !.attempt = @ + 1, !.raised = "FetchConfigException"]
                /\ pc' = "txn_exit" /\ UNCHANGED exc
                /\ Push(<<"FetchConfigException">>)
                /\ UNCHANGED wc
    /\ UNCHANGED <<config, ssh_wrappers, checkout, run, idx, visited, cache, cacheFile, remote, mirror>>

\* fetch_meta_config, one iteration of the second loop (and its else branch),
\* then the checkout of the config branch
TxnLs ==
    /\ pc = "txn_ls"
    /\ \E netOk \in BOOLEAN, present \in BOOLEAN :
       LET st == GitRemoteStatus(wc[idx], <<"remote", "update", "--prune">>, "remote", netOk)
           co == GitCheckoutB(wc[idx])
       IN  IF st = 0 /\ present
           THEN /\ wc' = [wc EXCEPT ![idx] = co.w]
                /\ IF co.st # 0
                   THEN /\ txn' = [txn EXCEPT !.raised = "FetchConfigException"]
                        /\ pc' = "exit" /\ exc' = "FetchConfigException"
                        /\ Push(<<"ls_ok", "FetchConfigException">>)
                   ELSE /\ txn' = [txn EXCEPT !.attempt = 0]
                        /\ pc' = "txn_body"
                        /\ Push(<<"ls_ok", "checkout_config">>)
                        /\ UNCHANGED exc
           ELSE IF ~LoopExhausted(txn.attempt)
           THEN /\ txn' = [txn EXCEPT !.attempt = @ + 1]
                /\ UNCHANGED <<wc, pc, exc, ev>>
           ELSE /\ txn' = [txn EXCEPT !.attempt = @ + 1, !.raised = "FetchConfigException"]
                /\ pc' = "exit" /\ exc' = "FetchConfigException"
                /\ Push(<<"FetchConfigException">>)
                /\ UNCHANGED wc
    /\ UNCHANGED <<config, ssh_wrappers, checkout, run, idx, visited, cache, cacheFile, remote, mirror>>

\* the group names an ACL file references
AclGroups(p) == IF decl[p].acl = "groups" THEN {"core", "Registered Users"} ELSE {}

\* variant of GroupUuids: the table of system groups is not consulted
GroupUuids_no_system_table(names, live, misses) ==
    LET create == {g \in names : g \notin live}
    IN  [resolved |-> create = {} \/ misses < GroupRetries,
         created |-> create,
         live |-> IF misses < GroupRetries THEN live \cup create ELSE live,
         lookups |-> IF create = {} THEN 0
                     ELSE IF misses < GroupRetries THEN misses + 1 ELSE GroupRetries]

\* GerritAPI.group_uuid for the groups of one ACL file; misses: lookups that
\* miss after a remote creation (GroupRetries: all of them)
GroupUuids(names, live, misses) ==
    LET create == {g \in names : g \notin live /\ g \notin GERRIT_SYSTEM_GROUPS}
    IN  [resolved |-> create = {} \/ misses < GroupRetries,
         created |-> create,
         live |-> IF misses < GroupRetries THEN live \cup create ELSE live,
         lookups |-> IF create = {} THEN 0
                     ELSE IF misses < GroupRetries THEN misses + 1 ELSE GroupRetries]

\* variant of copy_file_to_git_repo: the repository is always reported dirty
copy_file_to_git_repo_always_dirty(w, f, changed) ==
    [w |-> StageFile(w, f, changed), dirty |-> TRUE]

\* copy_file_to_git_repo: copy, git add, and the status of diff-index
copy_file_to_git_repo(w, f, changed) ==
    LET w1 == StageFile(w, f, changed) IN
    [w |-> w1, dirty |-> DiffIndexQuiet(w1) # 0]

\* the body of the 'with' of process_acls / process_prolog_rules
TxnBody ==
    /\ pc = "txn_body"
    /\ LET p == idx IN
       IF txn.kind = "acl"
       THEN LET c == copy_file_to_git_repo(wc[p], "project.config", metaAcl[p] # AclSha(p))
                w1 == c.w
                dirty_repo == c.dirty
            IN  IF ~dirty_repo
                THEN /\ wc' = [wc EXCEPT ![p] = w1]
                     /\ Push(<<"copy_acl">>)
                     /\ UNCHANGED <<txn, gerritGroups>>
                ELSE \E misses \in IF AclGroups(p) \subseteq gerritGroups \cup GERRIT_SYSTEM_GROUPS
                                    THEN {0} ELSE 0..GroupRetries :
                     LET g == GroupUuids(AclGroups(p), gerritGroups, misses) IN
                     /\ gerritGroups' = g.live
                     /\ Push(<<"copy_acl", "create_groups_file">> \o
                             (IF g.resolved THEN <<>> ELSE <<"CreateGroupException">>))
                     /\ IF g.resolved
                        THEN /\ wc' = [wc EXCEPT ![p] = StageFile(w1, "groups", AclGroups(p) # {})]
                             /\ txn' = [txn EXCEPT !.lookups = g.lookups, !.created = g.created]
                        ELSE /\ wc' = [wc EXCEPT ![p] = w1]
                             /\ txn' = [txn EXCEPT !.lookups = g.lookups, !.created = g.created,
                                                   !.raised = "CreateGroupException"]
       ELSE /\ wc' = [wc EXCEPT ![p] = StageFile(wc[p], "rules.pl", metaRules[p] # PrologSha(p))]
            /\ Push(<<"copy_rules">>)
            /\ UNCHANGED <<txn, gerritGroups>>
    /\ pc' = "txn_exit"
    /\ UNCHANGED <<config, ssh_wrappers, checkout, run, idx, visited, cache, cacheFile, gerritRepo, metaAcl,
                   metaRules, mirror, exc>>

\* variant of push_meta_config: the status of the commit is not looked at
PushMetaConfig_ignores_commit(p, w, commitOk, netOk) ==
    IF DiffIndexQuiet(w) = 0
    THEN [ret |-> "none", w |-> w, pushed |-> {}]
    ELSE LET c == GitCommitAll(w, commitOk) IN
         IF GitRemoteStatus(c.w, <<"push", RemoteUrl(p), "HEAD:refs/meta/config">>,
                            "push", netOk) # 0
         THEN [ret |-> "false", w |-> c.w, pushed |-> {}]
         ELSE [ret |-> "true", w |-> c.w, pushed |-> c.w.committed]

\* GerritMetaUpdater.push_meta_config
PushMetaConfig(p, w, commitOk, netOk) ==
    IF DiffIndexQuiet(w) = 0
    THEN [ret |-> "none", w |-> w, pushed |-> {}]
    ELSE LET c == GitCommitAll(w, commitOk) IN
         IF c.st # 0
         THEN [ret |-> "false", w |-> c.w, pushed |-> {}]
         ELSE IF GitRemoteStatus(c.w, <<"push", RemoteUrl(p), "HEAD:refs/meta/config">>,
                                 "push", netOk) # 0
         THEN [ret |-> "false", w |-> c.w, pushed |-> {}]
         ELSE [ret |-> "true", w |-> c.w, pushed |-> c.w.committed]

\* the cleanup of GerritMetaUpdater.__exit__
MetaCleanup(w, current_head) ==
    GitBranchD(GitCheckout(GitResetHard(w), current_head), "config")

\* what the release of a transaction did, as an entry of ev
MetaEvent(kind, what) ==
    IF kind = "acl"
    THEN CASE what = "no_changes" -> "acl_no_changes"
           [] what = "push_ok" -> "acl_push_ok"
           [] what = "push_failed" -> "acl_push_failed"
           [] OTHER -> "acl_commit_failed"
    ELSE CASE what = "no_changes" -> "rules_no_changes"
           [] what = "push_ok" -> "rules_push_ok"
           [] what = "push_failed" -> "rules_push_failed"
           [] OTHER -> "rules_commit_failed"

\* variant of TxnExit: __exit__ returns None, the body's exception goes on
TxnExit_reraises ==
    /\ pc = "txn_exit"
    /\ \E commitOk \in BOOLEAN, netOk \in BOOLEAN :
       LET p == idx
           r == PushMetaConfig(p, wc[p], commitOk, netOk)
       IN  /\ wc' = [wc EXCEPT ![p] = MetaCleanup(r.w, txn.current_head)]
           /\ metaAcl' = IF "project.config" \in r.pushed
                         THEN [metaAcl EXCEPT ![p] = AclSha(p)] ELSE metaAcl
           /\ metaRules' = IF "rules.pl" \in r.pushed
                           THEN [metaRules EXCEPT ![p] = PrologSha(p)] ELSE metaRules
           /\ txn' = [txn EXCEPT !.result = r.ret]
           /\ Push(<<MetaEvent(txn.kind, IF r.ret = "none" THEN "no_changes"
                                         ELSE IF r.ret = "true" THEN "push_ok"
                                         ELSE IF r.w.committed # wc[p].committed THEN "push_failed"
                                         ELSE "commit_failed"), "cleanup">>)
    /\ IF txn.raised = "none"
       THEN pc' = "txn_done" /\ UNCHANGED exc
       ELSE pc' = "exit" /\ exc' = txn.raised
    /\ UNCHANGED <<config, ssh_wrappers, checkout, run, idx, visited, cache, cacheFile, gerritRepo,
                   gerritGroups, mirror>>

\* GerritMetaUpdater.__exit__: returns True, the body's exception is dropped
TxnExit ==
    /\ pc = "txn_exit"
    /\ \E commitOk \in BOOLEAN, netOk \in BOOLEAN :
       LET p == idx
           r == PushMetaConfig(p, wc[p], commitOk, netOk)
       IN  /\ wc' = [wc EXCEPT ![p] = MetaCleanup(r.w, txn.current_head)]
           /\ metaAcl' = IF "project.config" \in r.pushed
                         THEN [metaAcl EXCEPT ![p] = AclSha(p)] ELSE metaAcl
           /\ metaRules' = IF "rules.pl" \in r.pushed
                           THEN [metaRules EXCEPT ![p] = PrologSha(p)] ELSE metaRules
           /\ txn' = [txn EXCEPT !.result = r.ret]
           /\ Push(<<MetaEvent(txn.kind, IF r.ret = "none" THEN "no_changes"
                                         ELSE IF r.ret = "true" THEN "push_ok"
                                         ELSE IF r.w.committed # wc[p].committed THEN "push_failed"
                                         ELSE "commit_failed"), "cleanup">>)
    /\ pc' = "txn_done"
    /\ UNCHANGED <<config, ssh_wrappers, checkout, run, idx, visited, cache, cacheFile, gerritRepo,
                   gerritGroups, mirror, exc>>

\* process_acls / process_prolog_rules returned: main records the hash
TxnDone ==
    /\ pc = "txn_done"
    /\ IF txn.kind = "acl"
       THEN /\ cache' = [cache EXCEPT ![idx].acl = StrV(AclSha(idx))]
            /\ pc' = "groups"
       ELSE /\ cache' = [cache EXCEPT ![idx].prolog = StrV(PrologSha(idx))]
            /\ pc' = "github"
    /\ txn' = NoTxn
    /\ UNCHANGED <<config, ssh_wrappers, checkout, run, idx, visited, cacheFile, remote, mirror, wc, exc, ev>>


\* step 5b of main: create_groups and the groups-sha bookkeeping; the value
\* stored is the dict group_sha, not the digest it was compared with
GroupsStep ==
    /\ pc = "groups"
    /\ IF GroupsDue(idx)
       THEN \E outcome \in {"ok", "raise"}, made \in BOOLEAN :
            /\ Push(<<"create_groups">>)
            /\ gerritGroups' = IF outcome = "ok" \/ made
                               THEN gerritGroups \cup GroupNames ELSE gerritGroups
            /\ IF outcome = "raise"
               THEN pc' = "exit" /\ exc' = "create_groups" /\ UNCHANGED cache
               ELSE /\ cache' = [cache EXCEPT ![idx].groups = DictV(GroupSha(idx))]
                    /\ pc' = "prolog"
                    /\ UNCHANGED exc
       ELSE /\ pc' = "prolog"
            /\ UNCHANGED <<cache, gerritGroups, exc, ev>>
    /\ UNCHANGED <<config, ssh_wrappers, checkout, run, idx, visited, cacheFile, gerritRepo, metaAcl,
                   metaRules, mirror, wc, txn>>

\* step 5c of main: process_prolog_rules up to the start of fetch_meta_config
PrologStep ==
    /\ pc = "prolog"
    /\ IF PrologDue(idx)
       THEN /\ txn' = MetaUpdaterEnter("prolog", wc[idx])
            /\ Push(<<"process_prolog_rules">>)
            /\ pc' = "txn_fetch"
       ELSE /\ pc' = "github"
            /\ UNCHANGED <<txn, ev>>
    /\ UNCHANGED <<config, ssh_wrappers, checkout, run, idx, visited, cache, cacheFile, remote, mirror, wc, exc>>

\* has_issues, has_downloads and has_wiki of create_update_github_project
HasFlags(d) == [DefaultHas EXCEPT !.issues = d.hasIssues \/ DefaultHas.issues]

\* section.cache.get('has_issues', settings.default_has_issues) and the like
CachedHas(rec) == IF rec.ghHas.present THEN rec.ghHas.v ELSE DefaultHas

\* variant of needs_update: the cache is not consulted
needs_update_always(rec, d) == TRUE

\* needs_update of create_update_github_project
needs_update(rec, d) ==
    \/ ~rec.ghCreated
    \/ ~rec.ghTeam
    \/ CachedHas(rec) # HasFlags(d)

\* the outcomes of the hosting service: the organisation is not ours, a
\* call raises before the repository is known, the repository is found,
\* the repository is created, a call raises after the repository is known
GithubOutcomes == {"not_ours", "raise", "found", "created", "team_raise"}

\* create_update_github_project: the returned value, whether it raised,
\* the cache record it leaves and the hosting-service calls it made
create_update_github_project(rec, d, outcome) ==
    IF ~needs_update(rec, d)
    THEN [ret |-> FALSE, raised |-> FALSE, rec |-> rec, calls |-> <<>>]
    ELSE IF outcome = "not_ours"
    THEN [ret |-> FALSE, raised |-> FALSE, rec |-> rec, calls |-> <<"github">>]
    ELSE IF outcome = "raise"
    THEN [ret |-> FALSE, raised |-> TRUE, rec |-> rec, calls |-> <<"github">>]
    ELSE LET rec1 == [rec EXCEPT !.ghCreated = TRUE,
                                 !.ghHas = [present |-> TRUE, v |-> HasFlags(d)]]
         IN  IF outcome = "team_raise"
             THEN [ret |-> FALSE, raised |-> TRUE, rec |-> rec1,
                   calls |-> <<"github", "get_teams">>]
             ELSE [ret |-> (outcome = "created") \/ ~rec.ghTeam,
                   raised |-> FALSE,
                   rec |-> [rec1 EXCEPT !.ghTeam = TRUE],
                   calls |-> <<"github">> \o
                             (IF outcome = "created" THEN <<"create_repo">> ELSE <<>>) \o
                             (IF rec.ghTeam THEN <<>> ELSE <<"get_teams">>)]

\* step 6 of main: create_update_github_project, then replicate if it
\* returned True
GithubStep ==
    /\ pc = "github"
    /\ IF ~decl[idx].github
       THEN UNCHANGED <<cache, exc, ev>>
       ELSE \E outcome \in GithubOutcomes :
            LET g == create_update_github_project(cache[idx], decl[idx], outcome) IN
            /\ cache' = [cache EXCEPT ![idx] = g.rec]
            /\ Push(g.calls \o
                    (IF g.ret THEN <<"github_returned_true">> ELSE <<>>) \o
                    (IF g.ret /\ gerrit_replicate THEN <<"replicate">> ELSE <<>>))
            /\ exc' = IF g.raised THEN "github" ELSE exc
    /\ pc' = "exit"
    /\ UNCHANGED <<config, ssh_wrappers, checkout, run, idx, visited, cacheFile, remote, mirror, wc, txn>>

\* variant of ProjectExit: __exit__ returns None, an exception ends the loop
ProjectExit_propagates ==
    /\ pc = "exit"
    /\ wc' = [wc EXCEPT ![idx] = RemoveDirIfExists(@)]
    /\ idx' = IF exc \in {"none", "skipped", "create_failed"} THEN idx + 1 ELSE NumProjects + 1
    /\ pc' = "enter"
    /\ exc' = "none"
    /\ txn' = NoTxn
    /\ ev' = <<>>
    /\ checkout' = NoCheckout
    /\ UNCHANGED <<config, ssh_wrappers, run, visited, cache, cacheFile, remote, mirror>>

\* JeepybProjectConfig.__exit__: logs, removes the working copy, returns True
ProjectExit ==
    /\ pc = "exit"
    /\ wc' = [wc EXCEPT ![idx] = RemoveDirIfExists(@)]
    /\ idx' = idx + 1
    /\ pc' = "enter"
    /\ exc' = "none"
    /\ txn' = NoTxn
    /\ ev' = <<>>
    /\ checkout' = NoCheckout
    /\ UNCHANGED <<config, ssh_wrappers, run, visited, cache, cacheFile, remote, mirror>>

\* JeepybSettings.__exit__: writes the whole cache
SettingsExit_partial ==
    /\ pc = "flush"
    /\ cacheFile' = [cacheFile EXCEPT ![1] = cache[1]]
    /\ ssh_wrappers' = ssh_wrappers \ {make_ssh_wrapper("JeepybSettings", run)}
    /\ pc' = "idle"
    /\ UNCHANGED <<config, checkout, run, idx, visited, cache, remote, mirror, wc, txn, exc, ev>>

SettingsExit ==
    /\ pc = "flush"
    /\ cacheFile' = cache
    /\ ssh_wrappers' = ssh_wrappers \ {make_ssh_wrapper("JeepybSettings", run)}
    /\ pc' = "idle"
    /\ UNCHANGED <<config, checkout, run, idx, visited, cache, remote, mirror, wc, txn, exc, ev>>

Next ==
    \/ StartRun
    \/ EnterProject
    \/ EndLoop
    \/ CreateStep
    \/ PushStep
    \/ MirrorStep
    \/ AclStep
    \/ TxnFetch
    \/ TxnLs
    \/ TxnBody
    \/ TxnExit
    \/ TxnDone
    \/ GroupsStep
    \/ PrologStep
    \/ GithubStep
    \/ ProjectExit
    \/ SettingsExit

Spec == Init /\ [][Next]_vars

NoCleanupSpec == NoCleanupInit /\ [][Next]_vars

TypeOK ==
    /\ run \in 0..MaxRuns
    /\ idx \in 0..(NumProjects + 1)
    /\ \A p \in Projects : wc[p].pending \subseteq {"project.config", "groups", "rules.pl", ".gitreview"}


\* ============================================================== Tracker
\* track_upstream.main, on the variables of the Driver.  The tracker never
\* writes the cache file (update_cache=False).

\* ------------------------------------------------------- branch names
\* the branches of the upstream repository, in the order of 'git branch -a'
UpstreamBranches == <<"master", "stable">>
\* the value of 'upstream-prefix' of a project that sets it
UpstreamPrefix == "vendor"

\* '/'.join of path components, for the names that occur in the model
Join(c) ==
    IF Len(c) = 1 THEN c[1]
    ELSE CASE c = <<"origin", "stable">> -> "origin/stable"
           [] c = <<"vendor", "master">> -> "vendor/master"
           [] c = <<"vendor", "stable">> -> "vendor/stable"
           [] c = <<"vendor", "HEAD">> -> "vendor/HEAD"
           [] OTHER -> "none"

\* origin_head.replace('origin/', '') on path components: str.replace drops
\* every occurrence, that is every component 'origin' followed by a '/'
RECURSIVE StrReplaceOrigin(_)
StrReplaceOrigin(c) ==
    IF Len(c) <= 1 THEN c
    ELSE IF Head(c) = "origin" THEN StrReplaceOrigin(Tail(c))
    ELSE <<Head(c)>> \o StrReplaceOrigin(Tail(c))

\* git rev-parse --abbrev-ref origin/HEAD
RevParseOriginHead(w) ==
    IF w.exists /\ w.origin_head # <<>>
    THEN [st |-> 0, out |-> <<"origin">> \o w.origin_head]
    ELSE [st |-> 128, out |-> <<"origin", "HEAD">>]

\* git remote set-url upstream <self.upstream>
GitRemoteSetUrl(w) ==
    IF w.exists /\ "upstream" \in w.remotes
    THEN [w EXCEPT !.upstream_url = "configured"] ELSE w

\* git remote rm upstream
GitRemoteRm(w) ==
    IF w.exists /\ "upstream" \in w.remotes
    THEN [w EXCEPT !.remotes = @ \ {"upstream"}, !.upstream_url = "none",
                   !.upstream_refs = {}, !.upstream_head = <<>>]
    ELSE w

\* git remote update [upstream] --prune; all: every remote is fetched;
\* gerritBranches: the branches of the project in the review service
GitRemoteUpdate(w, all, fetchOk, gerritBranches) ==
    IF ~w.exists \/ ~fetchOk THEN w
    ELSE [w EXCEPT !.upstream_refs =
                       IF "upstream" \in w.remotes /\ w.upstream_url = "configured"
                       THEN {UpstreamBranches[i] : i \in DOMAIN UpstreamBranches}
                       ELSE @,
                   !.origin_refs =
                       IF all /\ "origin" \in w.remotes THEN gerritBranches ELSE @]

\* git checkout -B <local> <start>; startExists: the start point resolves
GitCheckoutBranchB(w, local, startExists) ==
    IF w.exists /\ startExists
    THEN [w EXCEPT !.head = local, !.branches = @ \cup {local}, !.ahead = @ \ {local}]
    ELSE w

\* the local branch update_local_copy checks out for the output of rev-parse
LocalBranch(origin_head) == Join(StrReplaceOrigin(origin_head))

\* GerritCheckout.update_local_copy; upstream: self.upstream is set (with
\* None in the argument list the 'remote add' cannot be started); git_ok:
\* every git command it ran exited with status 0, rev-parse apart
UpdateLocalCopy(w, track_upstream, upstream, fetchOk, gerritBranches) ==
    LET has_upstream_remote == "upstream" \in w.remotes IN
    IF track_upstream /\ ~upstream
    THEN [raised |-> TRUE, git_ok |-> FALSE, w |-> w]
    ELSE
    LET w1 == IF track_upstream
              THEN GitRemoteUpdate(IF ~has_upstream_remote
                                   THEN GitRemoteAdd(w, "upstream")
                                   ELSE GitRemoteSetUrl(w),
                                   TRUE, fetchOk, gerritBranches)
              ELSE IF has_upstream_remote THEN GitRemoteRm(w) ELSE w
        r == RevParseOriginHead(w1)
        origin_head == IF r.st = 0 /\ r.out # <<>> THEN r.out ELSE <<"origin", "master">>
        local_branch == LocalBranch(origin_head)
        start == Join(Tail(origin_head)) \in w1.origin_refs
    IN  [raised |-> FALSE,
         git_ok |-> w.exists /\ (track_upstream => fetchOk) /\ start,
         w |-> GitCheckoutBranchB(w1, local_branch, start)]

\* variant of SyncLocalName: the prefix is not applied
SyncLocalName_no_prefix(prefixed, b) == b

\* the local branch of the upstream branch b
SyncLocalName(prefixed, b) == IF prefixed THEN Join(<<UpstreamPrefix, b>>) ELSE b

\* the lines of 'git branch -a' for the remote-tracking branches, stripped:
\* the path of the ref and whether the line is symbolic ('a -> b'); HEAD
\* sorts before the lower-case names
BranchLine(ref, arrow) == [ref |-> ref, arrow |-> arrow]
RemoteLines(rname, refs, head) ==
    LET Listed(b) == b \in refs
        names == SelectSeq(UpstreamBranches, Listed)
    IN  (IF head # <<>> THEN <<BranchLine(<<"remotes", rname, "HEAD">>, TRUE)>> ELSE <<>>) \o
        [i \in 1..Len(names) |-> BranchLine(<<"remotes", rname, names[i]>>, FALSE)]
GitBranchAll(w) ==
    IF w.exists
    THEN RemoteLines("origin", w.origin_refs, w.origin_head) \o
         RemoteLines("upstream", w.upstream_refs, w.upstream_head)
    ELSE <<>>

\* the lines the loop of sync_upstream does not skip
SyncSelected(line) == line.ref[1] = "remotes" /\ line.ref[2] = "upstream" /\ ~line.arrow

\* variant of SyncBranchNames: symbolic lines are not skipped
SyncBranchNames_with_symbolic(lines) ==
    LET Sel(line) == line.ref[1] = "remotes" /\ line.ref[2] = "upstream"
        sel == SelectSeq(lines, Sel)
    IN [i \in 1..Len(sel) |-> sel[i].ref[3]]

\* branch.split()[0][len('remotes/upstream/'):] of every selected line
SyncBranchNames(lines) ==
    LET sel == SelectSeq(lines, SyncSelected)
    IN [i \in 1..Len(sel) |-> sel[i].ref[3]]

\* what the loop runs: one 'checkout -B <local branch>' per selected line
RECURSIVE SyncCheckoutEvents(_, _)
SyncCheckoutEvents(names, prefixed) ==
    IF names = <<>> THEN <<>>
    ELSE <<"checkout_B", SyncLocalName(prefixed, Head(names))>> \o
         SyncCheckoutEvents(Tail(names), prefixed)

\* the loop of sync_upstream: checkout -B of every upstream branch
RECURSIVE SyncCheckouts(_, _, _)
SyncCheckouts(w, names, prefixed) ==
    IF names = <<>> THEN w
    ELSE SyncCheckouts(GitCheckoutBranchB(w, SyncLocalName(prefixed, Head(names)), TRUE),
                       Tail(names), prefixed)

\* the outcomes of one push: exit status 0, non-zero exit status, or the
\* command could not be started (Popen raised)
PushOutcomes == {"ok", "fail", "raise"}

PushEvent(what, outcome) ==
    IF what = "branches"
    THEN CASE outcome = "ok" -> "push_branches_ok"
           [] outcome = "fail" -> "push_branches_failed"
           [] OTHER -> "push_branches_raised"
    ELSE CASE outcome = "ok" -> "push_tags_ok"
           [] outcome = "fail" -> "push_tags_failed"
           [] OTHER -> "push_tags_raised"

\* variant of SyncPushes: the tag push follows a successful branch push only
SyncPushes_tags_after_success(branchPush, tagPush) ==
    <<PushEvent("branches", branchPush)>> \o
    (IF branchPush = "ok" THEN <<PushEvent("tags", tagPush)>> ELSE <<>>) \o
    (IF branchPush = "raise" \/ (branchPush = "ok" /\ tagPush = "raise")
     THEN <<"push_error_logged">> ELSE <<>>)

\* the try block of sync_upstream: the two pushes, statuses ignored; an
\* exception ends the block and is logged
SyncPushes(branchPush, tagPush) ==
    <<PushEvent("branches", branchPush)>> \o
    (IF branchPush # "raise" THEN <<PushEvent("tags", tagPush)>> ELSE <<>>) \o
    (IF branchPush = "raise" \/ tagPush = "raise"
     THEN <<"push_error_logged">> ELSE <<>>)

\* GerritCheckout.sync_upstream
SyncUpstream(w, prefixed, fetchOk, branchPush, tagPush) ==
    LET w1 == GitRemoteUpdate(w, FALSE, fetchOk, {})
        names == SyncBranchNames(GitBranchAll(w1))
    IN  [w |-> SyncCheckouts(w1, names, prefixed),
         raised |-> FALSE,
         did |-> <<"remote_update_upstream">> \o SyncCheckoutEvents(names, prefixed) \o
                 SyncPushes(branchPush, tagPush)]

\* ------------------------------------------------- tracker: initial state
\* the declarations the first project of a tracker run is drawn from
TrackDeclarations ==
    { Decl(FALSE, TRUE, "plain", FALSE, FALSE, FALSE, FALSE, TRUE, FALSE),
      Decl(FALSE, TRUE, "plain", FALSE, FALSE, FALSE, FALSE, TRUE, TRUE),
      Decl(FALSE, TRUE, "plain", FALSE, FALSE, FALSE, FALSE, FALSE, FALSE),
      Decl(FALSE, FALSE, "plain", FALSE, FALSE, FALSE, FALSE, TRUE, FALSE),
      Decl(TRUE, TRUE, "plain", FALSE, FALSE, FALSE, FALSE, TRUE, FALSE) }
TrackDeclaredLists ==
    { [p \in 1..NumProjects |->
          IF p = 1 THEN d
          ELSE Decl(FALSE, TRUE, "plain", FALSE, FALSE, FALSE, FALSE, TRUE, FALSE)] :
      d \in TrackDeclarations }

\* the cache record the Driver leaves for an imported project
PushedRecord == [EmptyRecord EXCEPT !.created = "true", !.pushed = "true"]

\* a working copy kept by an earlier tracker run, made when the project's
\* upstream was another URL
StaleCopy ==
    [NoWC EXCEPT !.exists = TRUE, !.head = "master", !.branches = {"master"},
                 !.remotes = {"origin", "upstream"}, !.user = TRUE,
                 !.upstream_url = "stale", !.upstream_refs = {"master"},
                 !.upstream_head = <<"master">>,
                 !.origin_refs = {"master"}, !.origin_head = <<"master">>]

\* the branches of project p in the review service
GerritBranches(p) == IF gerritRepo[p] = "content" THEN {"master"} ELSE {}

TrackInit ==
    /\ decl \in TrackDeclaredLists
    /\ filter \in Filters
    /\ replicate = TRUE
    /\ nocleanup \in BOOLEAN
    /\ fs = DriverFiles
    /\ sha_cache = NoShaCache
    /\ call = NoCall
    /\ groupMembers = {}
    /\ run = 0
    /\ pc = "idle"
    /\ idx = 0
    /\ visited = <<>>
    /\ cache = [p \in Projects |-> NoRecord]
    /\ cacheFile \in [Projects -> {NoRecord, PushedRecord}]
    /\ gerritRepo \in {[p \in Projects |-> IF p = 1 THEN r ELSE "content"] :
                          r \in {"empty", "content"}}
    /\ metaAcl = [p \in Projects |-> 0]
    /\ metaRules = [p \in Projects |-> 0]
    /\ gerritGroups = {}
    /\ mirror = [p \in Projects |-> TRUE]
    /\ wc \in {[p \in Projects |-> IF p = 1 THEN w ELSE NoWC] : w \in {NoWC, StaleCopy}}
    /\ checkout = NoCheckout
    /\ ssh_wrappers = {}
    /\ txn = NoTxn
    /\ exc = "none"
    /\ ev = <<>>

\* ------------------------------------------------------ tracker: actions
\* JeepybSettings(update_cache=False, cleanup_tmp=not nocleanup), GerritAPI
TrackStart ==
    /\ pc = "idle"
    /\ run < MaxRuns
    /\ run' = run + 1
    /\ cache' = cacheFile
    /\ idx' = 1
    /\ visited' = <<>>
    /\ ssh_wrappers' = ssh_wrappers \cup {make_ssh_wrapper("JeepybSettings", run + 1),
                                             make_ssh_wrapper("GerritAPI", run + 1)}
    /\ pc' = "t_enter"
    /\ UNCHANGED <<config, checkout, cacheFile, remote, mirror, wc, txn, exc, ev>>

\* variant of TrackEnter: the test of pushed-to-gerrit is left out
TrackEnter_no_cache_test ==
    /\ pc = "t_enter"
    /\ idx <= NumProjects
    /\ cache' = [cache EXCEPT ![idx] = [@ EXCEPT !.present = TRUE]]
    /\ visited' = Append(visited, idx)
    /\ IF \/ (filter # {} /\ idx \notin filter)
          \/ decl[idx].noGerrit
          \/ ~decl[idx].track
       THEN pc' = "t_exit" /\ exc' = "skipped"
       ELSE pc' = "t_copy" /\ exc' = "none"
    /\ UNCHANGED <<config, ssh_wrappers, checkout, run, idx, cacheFile, remote, mirror, wc, txn, ev>>

\* the four tests of the loop body; a project that passes them keeps its
\* working copy (section.cleanup_tmp = False)
TrackEnter ==
    /\ pc = "t_enter"
    /\ idx <= NumProjects
    /\ cache' = [cache EXCEPT ![idx] = [@ EXCEPT !.present = TRUE]]
    /\ visited' = Append(visited, idx)
    /\ IF \/ (filter # {} /\ idx \notin filter)
          \/ decl[idx].noGerrit
          \/ ~decl[idx].track
          \/ ~cache_pushed_to_gerrit(idx)
       THEN pc' = "t_exit" /\ exc' = "skipped"
       ELSE pc' = "t_copy" /\ exc' = "none"
    /\ UNCHANGED <<config, ssh_wrappers, checkout, run, idx, cacheFile, remote, mirror, wc, txn, ev>>

TrackEndLoop ==
    /\ pc = "t_enter"
    /\ idx > NumProjects
    /\ pc' = "t_flush"
    /\ UNCHANGED <<config, ssh_wrappers, checkout, run, idx, visited, cache, cacheFile, remote,
                   mirror, wc, txn, exc, ev>>

\* make_local_copy when the working copy is missing, else update_local_copy
TrackCopy ==
    /\ pc = "t_copy"
    /\ LET p == idx IN
       IF ~wc[p].exists
       THEN \E clone \in Outcomes(p \in GerritProjects) :
            \E second \in Outcomes(p \notin GerritProjects \/ clone = "raise") :
            LET m == MakeLocalCopy(p, clone, second, TRUE) IN
            /\ wc' = [wc EXCEPT ![p] = m.w]
            /\ checkout' = [NoCheckout EXCEPT !.listed = m.listed, !.clone = m.clone,
                                              !.strategy = m.strategy,
                                              !.push_string = m.push_string,
                                              !.committer = m.committer]
            /\ IF m.raised
               THEN /\ Push(<<"make_local_copy", "make_local_copy_raised">>)
                    /\ pc' = "t_exit" /\ exc' = "make_local_copy"
               ELSE /\ Push(<<"make_local_copy">>)
                    /\ pc' = "t_fsck" /\ UNCHANGED exc
       ELSE \E fetchOk \in BOOLEAN :
            LET u == UpdateLocalCopy(wc[p], decl[p].track, decl[p].upstream, fetchOk,
                                     GerritBranches(p)) IN
            /\ wc' = [wc EXCEPT ![p] = u.w]
            /\ UNCHANGED checkout
            /\ IF u.raised
               THEN /\ Push(<<"update_local_copy", "update_local_copy_raised">>)
                    /\ pc' = "t_exit" /\ exc' = "update_local_copy"
               ELSE /\ Push(<<"update_local_copy">>)
                    /\ pc' = "t_fsck" /\ UNCHANGED exc
    /\ UNCHANGED <<config, ssh_wrappers, run, idx, visited, cache, cacheFile, remote, mirror, txn>>

\* checkout.fsck_repo()
TrackFsck ==
    /\ pc = "t_fsck"
    /\ \E rc \in IF wc[idx].exists THEN {0, 1} ELSE {128} :
       \E zeroPadded \in IF rc = 0 THEN BOOLEAN ELSE {FALSE} :
       /\ checkout' = [checkout EXCEPT !.rc = rc, !.warning = zeroPadded,
                                       !.fsck = IF FsckRaises(wc[idx], rc, zeroPadded)
                                                THEN "raised" ELSE "passed"]
       /\ IF FsckRaises(wc[idx], rc, zeroPadded)
          THEN /\ Push(<<"fsck_bad">>)
               /\ pc' = "t_exit" /\ exc' = "fsck"
          ELSE /\ Push(<<"fsck_clean">>)
               /\ pc' = "t_sync" /\ UNCHANGED exc
    /\ UNCHANGED <<config, ssh_wrappers, run, idx, visited, cache, cacheFile, remote, mirror, wc, txn>>

\* checkout.sync_upstream(section.upstream_prefix)
TrackSync ==
    /\ pc = "t_sync"
    /\ \E fetchOk \in BOOLEAN, branchPush \in PushOutcomes :
       \E tagPush \in IF branchPush = "raise" THEN {"ok"} ELSE PushOutcomes :
       LET s == SyncUpstream(wc[idx], decl[idx].prefix, fetchOk, branchPush, tagPush) IN
       /\ wc' = [wc EXCEPT ![idx] = s.w]
       /\ Push(<<"sync_upstream">> \o s.did)
       /\ gerritRepo' = IF branchPush = "ok" /\ s.w.branches # {}
                        THEN [gerritRepo EXCEPT ![idx] = "content"] ELSE gerritRepo
       /\ IF s.raised
          THEN exc' = "sync_upstream"
          ELSE UNCHANGED exc
    /\ pc' = "t_exit"
    /\ UNCHANGED <<config, ssh_wrappers, checkout, run, idx, visited, cache, cacheFile, metaAcl,
                   metaRules, gerritGroups, mirror, txn>>

\* JeepybProjectConfig.__exit__ with the section's cleanup_tmp
TrackExit ==
    /\ pc = "t_exit"
    /\ wc' = IF exc = "skipped" /\ ~nocleanup
             THEN [wc EXCEPT ![idx] = RemoveDirIfExists(@)] ELSE wc
    /\ idx' = idx + 1
    /\ pc' = "t_enter"
    /\ exc' = "none"
    /\ txn' = NoTxn
    /\ ev' = <<>>
    /\ checkout' = NoCheckout
    /\ UNCHANGED <<config, ssh_wrappers, run, visited, cache, cacheFile, remote, mirror>>

\* JeepybSettings.__exit__ with update_cache = False
TrackSettingsExit ==
    /\ pc = "t_flush"
    /\ ssh_wrappers' = ssh_wrappers \ {make_ssh_wrapper("JeepybSettings", run)}
    /\ pc' = "idle"
    /\ UNCHANGED <<config, checkout, run, idx, visited, cache, cacheFile, remote, mirror, wc,
                   txn, exc, ev>>

TrackNext ==
    \/ TrackStart
    \/ TrackEnter
    \/ TrackEndLoop
    \/ TrackCopy
    \/ TrackFsck
    \/ TrackSync
    \/ TrackExit
    \/ TrackSettingsExit

TrackSpec == TrackInit /\ [][TrackNext]_vars


\* ===================================================== update_local_copy
\* update_local_copy applied to one working copy, for both values of its
\* argument (main of track_upstream only passes True)

\* the default branches of the review-service repository
DefaultBranches == {<<"master">>, <<"main">>, <<"origin", "stable">>}

\* the working copies update_local_copy is applied to: the remote 'origin'
\* is the review service; 'upstream' may be present, with the configured
\* URL or another one; origin/HEAD may be unset
UpdateInputs ==
    { [NoWC EXCEPT !.exists = TRUE, !.user = TRUE,
                   !.head = h, !.branches = {"master", h} \cup a,
                   !.remotes = IF u = "none" THEN {"origin"} ELSE {"origin", "upstream"},
                   !.upstream_url = u,
                   !.upstream_refs = IF u = "none" THEN {} ELSE {"master"},
                   !.origin_refs = {"master"} \cup (IF oh = <<>> THEN {} ELSE {Join(oh)}),
                   !.origin_head = oh,
                   !.ahead = a] :
      h \in {"master", "stable"},
      u \in {"none", "configured", "stale"},
      oh \in DefaultBranches \cup {<<>>},
      a \in SUBSET {"master", "main", "origin/stable"} }

UpdateInit ==
    /\ decl \in {[p \in Projects |->
                     Decl(FALSE, up, "plain", FALSE, FALSE, FALSE, FALSE, tr, FALSE)] :
                 up \in BOOLEAN, tr \in BOOLEAN}
    /\ filter = {}
    /\ replicate = TRUE
    /\ nocleanup = FALSE
    /\ fs = DriverFiles
    /\ sha_cache = NoShaCache
    /\ call = NoCall
    /\ groupMembers = {}
    /\ run = 0
    /\ pc = "u_ready"
    /\ idx = 1
    /\ visited = <<>>
    /\ cache = [p \in Projects |-> NoRecord]
    /\ cacheFile = [p \in Projects |-> NoRecord]
    /\ gerritRepo = [p \in Projects |-> "content"]
    /\ metaAcl = [p \in Projects |-> 0]
    /\ metaRules = [p \in Projects |-> 0]
    /\ gerritGroups = {}
    /\ mirror = [p \in Projects |-> TRUE]
    /\ wc \in {[p \in Projects |-> IF p = 1 THEN w ELSE NoWC] : w \in UpdateInputs}
    /\ checkout = NoCheckout
    /\ ssh_wrappers = {}
    /\ txn = NoTxn
    /\ exc = "none"
    /\ ev = <<>>

\* checkout.update_local_copy(track_upstream) on the first working copy
UpdateApply ==
    /\ pc = "u_ready"
    /\ \E fetchOk \in BOOLEAN :
       LET u == UpdateLocalCopy(wc[1], decl[1].track, decl[1].upstream, fetchOk,
                                wc[1].origin_refs) IN
       /\ wc' = [wc EXCEPT ![1] = u.w]
       /\ exc' = IF u.raised THEN "update_local_copy"
                 ELSE IF u.git_ok THEN "none" ELSE "git_failed"
       /\ Push(<<"update_local_copy">>)
    /\ pc' = "u_done"
    /\ UNCHANGED <<config, ssh_wrappers, checkout, run, idx, visited, cache, cacheFile, remote,
                   mirror, txn>>

UpdateNext == UpdateApply

UpdateSpec == UpdateInit /\ [][UpdateNext]_vars

\* ============================================ generate_sha_for_dir applied
ShaInit ==
    /\ decl = [p \in Projects |-> PlainProject]
    /\ filter = {}
    /\ replicate = TRUE
    /\ nocleanup = FALSE
    /\ fs \in {[tree |-> t, ext |-> x] : t \in Trees, x \in Extensions}
    /\ sha_cache = NoShaCache
    /\ call = NoCall
    /\ groupMembers = {}
    /\ run = 0
    /\ pc = "s_ready"
    /\ idx = 0
    /\ visited = <<>>
    /\ cache = [p \in Projects |-> NoRecord]
    /\ cacheFile = [p \in Projects |-> NoRecord]
    /\ gerritRepo = [p \in Projects |-> "absent"]
    /\ metaAcl = [p \in Projects |-> 0]
    /\ metaRules = [p \in Projects |-> 0]
    /\ gerritGroups = {}
    /\ mirror = [p \in Projects |-> FALSE]
    /\ wc = [p \in Projects |-> NoWC]
    /\ checkout = NoCheckout
    /\ ssh_wrappers = {}
    /\ txn = NoTxn
    /\ exc = "none"
    /\ ev = <<>>

\* one call of generate_sha_for_dir, glob listing in any order
ShaApply ==
    /\ pc \in {"s_ready", "s_hashed", "s_modified"}
    /\ run < MaxRuns
    /\ \E order \in Orders({e \in fs.tree : GlobMatch(e, fs.ext)}) :
          sha_cache' = generate_sha_for_dir(fs.tree, fs.ext, order)
    /\ run' = run + 1
    /\ pc' = "s_hashed"
    /\ UNCHANGED <<decl, filter, replicate, nocleanup, fs, call, groupMembers, ssh_wrappers, checkout, idx, visited,
                   cache, cacheFile, remote, mirror, wc, txn, exc, ev>>

\* between two calls the content of one file is changed
ShaModify ==
    /\ pc = "s_hashed"
    /\ run < MaxRuns
    /\ ev = <<>>
    /\ \E e \in fs.tree : \E c \in Contents :
          /\ e.kind = "file"
          /\ c # e.content
          /\ fs' = [fs EXCEPT !.tree = (@ \ {e}) \cup {[e EXCEPT !.content = c]}]
          /\ ev' = <<e.path>>
    /\ pc' = "s_modified"
    /\ UNCHANGED <<decl, filter, replicate, nocleanup, sha_cache, call, groupMembers, ssh_wrappers, checkout, run,
                   idx, visited, cache, cacheFile, remote, mirror, wc, txn, exc>>

ShaNext == ShaApply \/ ShaModify

ShaSpec == ShaInit /\ [][ShaNext]_vars


\* ======================================================== create_group
\* the lines of 'gerrit ls-groups --verbose', split at the tabs: the name
\* comes first, then the UUID
ListGroups(live) == {<<g, <<"uuid", g>>, "", g, <<"uuid", g>>, "true">> : g \in live}

\* GerritAPI.groups_dict: the lines keyed by their first column
groups_dict(all_groups) ==
    [n \in {l[1] : l \in all_groups} |-> CHOOSE l \in all_groups : l[1] = n]

\* the outcomes of a request to the review service
CreateOutcomes == {"ok", "raise"}
RestOutcomes == {"ok", "422", "200", "error"}

\* add_group_members and add_internal_include_groups: one POST; every
\* GerritRestError is swallowed
RestPost(what, outcome) == [issued |-> <<what>>, raised |-> FALSE, done |-> outcome = "ok"]

\* add_include_groups: one PUT per group; an error other than 422 and 200 is
\* raised again (every PUT of the model has the same outcome, so the first
\* one raises)
RestPutEach(n, outcome) ==
    [issued |-> IF outcome = "error" THEN <<"add_include_groups">>
                ELSE [i \in 1..n |-> "add_include_groups"],
     raised |-> outcome = "error",
     done |-> outcome \in {"ok", "200"}]

\* variant of create_group: the creation is issued without the listing
create_group_always_creates(c, live, membership, created, rest) ==
    LET groups == groups_dict(ListGroups(live))
        absent == TRUE
        pre == <<"listGroups">> \o (IF absent THEN <<"createGroup">> ELSE <<>>)
    IN  IF absent /\ created = "raise"
        THEN [live |-> live, membership |-> membership, issued |-> pre, raised |-> TRUE]
        ELSE
        LET m == IF c.members # {} THEN RestPost("add_group_members", rest.members)
                 ELSE [issued |-> <<>>, raised |-> FALSE, done |-> FALSE]
            s == IF c.subgroups # {} THEN RestPost("add_internal_include_groups", rest.subgroups)
                 ELSE [issued |-> <<>>, raised |-> FALSE, done |-> FALSE]
            l == IF c.ldap_groups # {} THEN RestPutEach(Cardinality(c.ldap_groups), rest.ldap)
                 ELSE [issued |-> <<>>, raised |-> FALSE, done |-> FALSE]
        IN  [live |-> IF absent THEN live \cup {c.name} ELSE live,
             membership |-> membership
                 \cup (IF m.done THEN {<<c.name, x>> : x \in c.members} ELSE {})
                 \cup (IF s.done THEN {<<c.name, x>> : x \in c.subgroups} ELSE {})
                 \cup (IF l.done THEN {<<c.name, x>> : x \in c.ldap_groups} ELSE {}),
             issued |-> pre \o m.issued \o s.issued \o l.issued,
             raised |-> l.raised]

\* GerritAPI.create_group on the service state (live groups, membership);
\* created: outcome of createGroup; rest: outcomes of the three REST calls
create_group(c, live, membership, created, rest) ==
    LET groups == groups_dict(ListGroups(live))
        absent == c.name \notin DOMAIN groups
        pre == <<"listGroups">> \o (IF absent THEN <<"createGroup">> ELSE <<>>)
    IN  IF absent /\ created = "raise"
        THEN [live |-> live, membership |-> membership, issued |-> pre, raised |-> TRUE]
        ELSE
        LET m == IF c.members # {} THEN RestPost("add_group_members", rest.members)
                 ELSE [issued |-> <<>>, raised |-> FALSE, done |-> FALSE]
            s == IF c.subgroups # {} THEN RestPost("add_internal_include_groups", rest.subgroups)
                 ELSE [issued |-> <<>>, raised |-> FALSE, done |-> FALSE]
            l == IF c.ldap_groups # {} THEN RestPutEach(Cardinality(c.ldap_groups), rest.ldap)
                 ELSE [issued |-> <<>>, raised |-> FALSE, done |-> FALSE]
        IN  [live |-> IF absent THEN live \cup {c.name} ELSE live,
             membership |-> membership
                 \cup (IF m.done THEN {<<c.name, x>> : x \in c.members} ELSE {})
                 \cup (IF s.done THEN {<<c.name, x>> : x \in c.subgroups} ELSE {})
                 \cup (IF l.done THEN {<<c.name, x>> : x \in c.ldap_groups} ELSE {}),
             issued |-> pre \o m.issued \o s.issued \o l.issued,
             raised |-> l.raised]

\* the calls of the model: the entries of a groups file
CallNames == {"core", "release"}
Calls ==
    {Call(n, m, s, l) : n \in CallNames, m \in {{}, {"alice"}}, s \in {{}, {"qa"}},
                        l \in {{}, {"ldap:devs", "ldap:ops"}}}

GroupInit ==
    /\ decl = [p \in Projects |-> PlainProject]
    /\ filter = {}
    /\ replicate = TRUE
    /\ nocleanup = FALSE
    /\ fs = DriverFiles
    /\ sha_cache = NoShaCache
    /\ call \in Calls
    /\ groupMembers = {}
    /\ run = 0
    /\ pc = "g_ready"
    /\ idx = 0
    /\ visited = <<>>
    /\ cache = [p \in Projects |-> NoRecord]
    /\ cacheFile = [p \in Projects |-> NoRecord]
    /\ gerritRepo = [p \in Projects |-> "absent"]
    /\ metaAcl = [p \in Projects |-> 0]
    /\ metaRules = [p \in Projects |-> 0]
    /\ gerritGroups \in SUBSET CallNames
    /\ mirror = [p \in Projects |-> FALSE]
    /\ wc = [p \in Projects |-> NoWC]
    /\ checkout = NoCheckout
    /\ ssh_wrappers = {}
    /\ txn = NoTxn
    /\ exc = "none"
    /\ ev = <<>>

\* one call of create_group (one iteration of the loop of create_groups)
GroupApply ==
    /\ pc = "g_ready"
    /\ \E created \in CreateOutcomes, rm \in RestOutcomes, rs \in RestOutcomes, rl \in RestOutcomes :
       LET r == create_group(call, gerritGroups, groupMembers, created,
                             [members |-> rm, subgroups |-> rs, ldap |-> rl])
       IN  /\ gerritGroups' = r.live
           /\ groupMembers' = r.membership
           /\ ev' = r.issued
           /\ exc' = IF r.raised THEN "create_group" ELSE "none"
    /\ run' = run + 1
    /\ pc' = "g_done"
    /\ UNCHANGED <<decl, filter, replicate, nocleanup, fs, sha_cache, call, ssh_wrappers, checkout,
                   idx, visited, cache, cacheFile, gerritRepo, metaAcl, metaRules, mirror, wc, txn>>

\* the next entry of the groups file, or the same file in a later run
GroupNextCall ==
    /\ pc = "g_done"
    /\ run < MaxRuns
    /\ call' \in Calls
    /\ pc' = "g_ready"
    /\ UNCHANGED <<decl, filter, replicate, nocleanup, fs, sha_cache, groupMembers, ssh_wrappers,
                   checkout, run, idx, visited, cache, cacheFile, remote, mirror, wc, txn, exc, ev>>

GroupNext == GroupApply \/ GroupNextCall

GroupSpec == GroupInit /\ [][GroupNext]_vars


\* ================================================================ claims
InEv(e) == \E i \in DOMAIN ev : ev[i] = e
\* the project passes the filter and does not opt out (step 1 of main)
Processed(p) == (filter = {} \/ p \in filter) /\ ~decl[p].noGerrit
\* a cache record without the mark left by setdefault
Fields(r) == [r EXCEPT !.present = FALSE]

ImportPushEvents == {"import_push_ok", "import_push_failed"}
MetaPushEvents == {"acl_push_ok", "acl_push_failed", "rules_push_ok", "rules_push_failed"}
FatalEvents == {"create_failed", "fsck_bad", "FetchConfigException", "CreateGroupException"}
LaterStepEvents == {"set_pushed", "replicate", "create_local_mirror", "process_acls",
                    "create_groups", "process_prolog_rules", "github"}

\* C1: when a metadata transaction has completed, the working copy is on the
\* branch recorded in __enter__ ('master' when detection failed) and there is
\* no local branch 'config', whatever the commit and the push did.
C1_BranchRestored ==
    pc = "txn_done" =>
        /\ wc[idx].head = txn.current_head
        /\ "config" \notin wc[idx].branches

\* C2: a cached 'acl-sha' ('prolog-sha') equals a hash only if the content
\* with that hash is what refs/meta/config of the project holds (pushed with
\* success, or found identical).
C2_HashOnlyAfterPush ==
    \A p \in Projects :
        /\ cache[p].acl = StrV(AclSha(p)) => metaAcl[p] = AclSha(p)
        /\ cache[p].prolog = StrV(PrologSha(p)) => metaRules[p] = PrologSha(p)

\* C3: 'pushed-to-gerrit' is set for a project only after its content was
\* cloned from the review service or the import push succeeded.
C3_PushedOnlyIfVerified ==
    \A i \in DOMAIN ev :
        ev[i] = "set_pushed" => \E j \in 1..(i - 1) : ev[j] \in {"cloned", "import_push_ok"}

C6_FatalAbandons ==
    \A i \in DOMAIN ev : ev[i] \in FatalEvents =>
        /\ \A j \in (i + 1)..Len(ev) : ev[j] \notin LaterStepEvents
        /\ ev[i] = "CreateGroupException" => cache[idx].acl = cacheFile[idx].acl
        /\ ev[i] = "FetchConfigException" =>
              cache[idx].acl = cacheFile[idx].acl \/ cache[idx].prolog = cacheFile[idx].prolog

\* C7 (as stated): in a run after the first one, nothing is pushed to the
\* review service (the declarations and the files are the same in all runs).
C7_SecondRunNoPush ==
    run >= 2 => \A i \in DOMAIN ev : ev[i] \notin ImportPushEvents \cup MetaPushEvents

\* C7 (amended): in a run after the first one, there is no import push for a
\* project that the previous run left marked pushed-to-gerrit, and no push to
\* refs/meta/config of an ACL or rules file whose hash the previous run left
\* recorded in the cache.
C7_SecondRunNoPush_Amended ==
    run >= 2 /\ idx \in Projects =>
        /\ cacheFile[idx].pushed = "true" => \A i \in DOMAIN ev : ev[i] \notin ImportPushEvents
        /\ cacheFile[idx].acl = StrV(AclSha(idx)) =>
              \A i \in DOMAIN ev : ev[i] \notin {"acl_push_ok", "acl_push_failed"}
        /\ cacheFile[idx].prolog = StrV(PrologSha(idx)) =>
              \A i \in DOMAIN ev : ev[i] \notin {"rules_push_ok", "rules_push_failed"}

\* C7 witness: a project that the previous run left pushed and with its ACL
\* hash recorded went through all the steps of the second run.
C7_Witness ==
    /\ run = 2
    /\ pc = "exit"
    /\ exc = "none"
    /\ cacheFile[idx].pushed = "true"
    /\ cacheFile[idx].acl = StrV(AclSha(idx))
    /\ InEv("create_local_mirror")

\* C8 (as stated): in a run after the first one process_acls is not invoked
\* (the ACL files never change), and process_prolog_rules is invoked only
\* when the hash of the rules file differs from the cached 'prolog-sha'.
C8_UnchangedAclSkipped ==
    /\ run >= 2 => ~InEv("process_acls")
    /\ InEv("process_prolog_rules") => cacheFile[idx].prolog # StrV(PrologSha(idx))

\* C8 (amended): process_acls is not invoked in a run that starts with the
\* hash of the ACL file recorded as 'acl-sha' (a run records it only when
\* process_acls returned), and process_prolog_rules is invoked only when the
\* hash of the rules file differs from the cached 'prolog-sha'.
C8_UnchangedAclSkipped_Amended ==
    idx \in Projects =>
        /\ InEv("process_acls") => cacheFile[idx].acl # StrV(AclSha(idx))
        /\ InEv("process_prolog_rules") => cacheFile[idx].prolog # StrV(PrologSha(idx))

\* C8 witness: the second run reached the end of a project whose ACL hash the
\* first run recorded, without invoking process_acls.
C8_Witness ==
    /\ run = 2
    /\ pc = "exit"
    /\ cacheFile[idx].acl = StrV(AclSha(idx))
    /\ InEv("create_local_mirror")
    /\ ~InEv("process_acls")

\* C9: create_groups is not run for a project in a run that follows one in
\* which it completed for the same groups file.
C9_GroupsSkippedWhenUnchanged ==
    run >= 2 /\ idx \in Projects /\ cacheFile[idx].groups # Absent => ~InEv("create_groups")

\* C10: an import push is executed only after fsck_repo passed in the same
\* run; after a failed fsck_repo nothing is pushed and 'pushed-to-gerrit' is
\* not set.
C10_FsckGate ==
    /\ \A i \in DOMAIN ev : ev[i] \in ImportPushEvents =>
          \E j \in 1..(i - 1) : ev[j] = "fsck_clean"
    /\ InEv("fsck_bad") =>
          /\ \A i \in DOMAIN ev : ev[i] \notin ImportPushEvents \cup {"set_pushed"}
          /\ cache[idx].pushed # "true"

\* C10 witness: an import push was executed (after a clean fsck_repo).
C10_Witness == pc = "mirror" /\ \E i \in DOMAIN ev : ev[i] \in ImportPushEvents

\* C11: fsck_repo raises exactly when the exit status of the check is not 0
\* or its output holds the zero-padded-filemode warning (so it raises on
\* status 0 with the warning, and passes on status 0 without it).
C11_FsckRaisesExactly ==
    checkout.fsck # "none" =>
        (checkout.fsck = "raised" <=> (checkout.rc # 0 \/ checkout.warning))

\* C11 witness: fsck_repo raised on exit status 0 with the warning.
C11_Witness == checkout.fsck = "raised" /\ checkout.rc = 0 /\ checkout.warning

NoChangeEvents == {"acl_no_changes", "rules_no_changes"}
ReleaseEvents == {MetaEvent(k, w) : k \in {"acl", "prolog"},
                                    w \in {"no_changes", "push_ok", "push_failed", "commit_failed"}}

\* C12: every exit of the transaction body, one by CreateGroupException
\* included, is followed by the release: push_meta_config commits and pushes
\* when the working tree has a pending change (and only then), after it the
\* cleanup is run (no pending change is left), and the transaction ends
\* without an exception.
C12_ReleaseAlwaysRuns ==
    [][pc = "txn_exit" =>
          /\ pc' = "txn_done"
          /\ exc' = "none"
          /\ wc'[idx].pending = {}
          /\ \E e \in ReleaseEvents :
                /\ ev' = ev \o <<e, "cleanup">>
                /\ e \in NoChangeEvents <=> wc[idx].pending = {}]_vars

\* C12 witness: the body raised CreateGroupException with the ACL file
\* staged, and the release committed and pushed it.
C12_Witness ==
    /\ pc = "txn_done"
    /\ txn.raised = "CreateGroupException"
    /\ InEv("acl_push_ok")
    /\ ev[Len(ev)] = "cleanup"

\* C13: push_meta_config neither commits nor pushes when nothing is pending;
\* otherwise it commits and, only after a commit that succeeded, pushes
\* HEAD:refs/meta/config; its result is False after a failed commit or push,
\* True only when both succeeded, and it never raises.
C13_PushMetaConfigResult ==
    [][pc = "txn_exit" =>
          LET w == wc[idx]
              pushed == metaAcl' # metaAcl \/ metaRules' # metaRules
          IN  /\ pc' = "txn_done" /\ exc' = exc
              /\ w.pending = {} =>
                    /\ txn'.result = "none"
                    /\ wc'[idx].committed = w.committed
                    /\ ~pushed
              /\ w.pending # {} => txn'.result \in {"true", "false"}
              /\ txn'.result = "true" =>
                    /\ w.pending # {}
                    /\ wc'[idx].committed = w.committed \cup w.pending
                    /\ "project.config" \in w.pending => metaAcl'[idx] = AclSha(idx)
                    /\ "rules.pl" \in w.pending => metaRules'[idx] = PrologSha(idx)
              /\ txn'.result = "false" => ~pushed
              /\ pushed => w.pending \subseteq wc'[idx].committed]_vars

\* C13 witness: push_meta_config committed, the push failed, and the result
\* was False.
C13_Witness ==
    /\ pc = "txn_done"
    /\ txn.result = "false"
    /\ InEv("acl_push_failed")
    /\ "project.config" \in wc[idx].committed

\* a step of fetch_meta_config: a failed attempt that is counted, the first
\* success of a phase, or the exhaustion of a phase
C14_PollingStep ==
    pc \in {"txn_fetch", "txn_ls"} =>
        \/ (pc' = pc /\ txn'.attempt = txn.attempt + 1)
        \/ (pc = "txn_fetch" /\ pc' = "txn_ls" /\ txn'.attempt = 0)
        \/ (pc = "txn_ls" /\ pc' = "txn_body" /\ txn'.attempt = 0)
        \/ (pc' = "exit" /\ exc' = "FetchConfigException" /\ txn'.attempt = FetchAttempts)

\* C14: each polling phase of fetch_meta_config makes at most FetchAttempts
\* attempts: a failed attempt (a failed remote update included) is counted
\* and the phase goes on, the first success ends the phase, and the failure
\* of the last attempt ends fetch_meta_config with FetchConfigException; so
\* the number of steps left in a phase decreases at every step.
C14_FetchBounded ==
    /\ [](txn.attempt <= FetchAttempts)
    /\ [](pc \in {"txn_fetch", "txn_ls"} => txn.attempt < FetchAttempts)
    /\ [][C14_PollingStep]_vars

\* C14 witness: the fetch succeeded and the presence check failed 10 times.
C14_Witness ==
    /\ pc = "exit"
    /\ exc = "FetchConfigException"
    /\ txn.attempt = FetchAttempts
    /\ wc[idx].fetched

\* C15: the branch config is force-created only right after a fetch of
\* refs/meta/config that succeeded and a presence check that found
\* project.config, both in this transaction; the body runs only right after
\* that checkout; and after the exhaustion of a polling phase nothing more is
\* done for the transaction (no checkout, no body).
C15_CheckoutAfterPolling ==
    \A i \in DOMAIN ev :
        /\ ev[i] = "checkout_config" => i > 2 /\ ev[i - 2] = "fetch_ok" /\ ev[i - 1] = "ls_ok"
        /\ ev[i] \in {"copy_acl", "copy_rules"} => i > 1 /\ ev[i - 1] = "checkout_config"
        /\ ev[i] = "FetchConfigException" =>
              /\ i = Len(ev)
              /\ pc = "exit"
              /\ txn.attempt = FetchAttempts => ev[i - 1] \in {"process_acls", "process_prolog_rules", "fetch_ok"}

\* C15 witness: the second transaction of a project (policy rules) checked
\* out config after its own fetch and presence check.
C15_Witness ==
    /\ pc = "txn_body"
    /\ txn.kind = "prolog"
    /\ InEv("acl_push_ok")
    /\ ev[Len(ev)] = "checkout_config"

\* the transaction body never triggers a creation for a group of the live
\* listing
C16_NoCreationOfLiveGroup ==
    pc = "txn_body" => txn'.created \cap gerritGroups = {}

\* C16: group_uuid creates a group only when the name is neither in the live
\* listing nor in the table of system groups; after a creation it makes at
\* least 1 and at most GroupRetries lookups and returns at the first one
\* that finds the group; it fails (the body raises CreateGroupException)
\* only when all GroupRetries lookups missed; without a creation there is no
\* further lookup and no failure.
C16_GroupUuidOrder ==
    /\ [](txn.created \cap GERRIT_SYSTEM_GROUPS = {})
    /\ [](txn.lookups <= GroupRetries)
    /\ [](txn.created = {} => txn.lookups = 0 /\ txn.raised # "CreateGroupException")
    /\ [](txn.created # {} => txn.lookups >= 1)
    /\ [](pc = "txn_exit" /\ txn.created # {} =>
            IF txn.raised = "CreateGroupException"
            THEN txn.lookups = GroupRetries /\ txn.created \cap gerritGroups = {}
            ELSE txn.created \subseteq gerritGroups)
    /\ [][C16_NoCreationOfLiveGroup]_vars

\* C16 witness: the ACL file names a system group and a group that had to be
\* created, and the created group was found at the last lookup.
C16_Witness ==
    /\ pc = "txn_exit"
    /\ "Registered Users" \in AclGroups(idx)
    /\ txn.created = {"core"}
    /\ txn.lookups = GroupRetries
    /\ txn.raised = "none"

\* C16 second case: the group is in the live listing, nothing is created.
C16_LiveWitness ==
    /\ pc = "txn_exit"
    /\ InEv("create_groups_file")
    /\ "core" \in AclGroups(idx)
    /\ txn.created = {}

\* C17: the result of a make_local_copy that returned is the one of exactly
\* one strategy, chosen by priority: the clone of the review service
\* succeeded -> no push spec, remote upstream added iff an upstream is
\* configured; otherwise an upstream is configured -> the push spec
\* '+refs/copy/heads/*:refs/heads/*', remotes upstream and origin; otherwise
\* fresh init -> the push spec 'HEAD:refs/heads/master'.
C17_StrategyFunction ==
    checkout.strategy # "none" /\ exc # "make_local_copy" =>
        IF checkout.listed /\ checkout.clone = "ok"
        THEN /\ checkout.strategy = "gerrit"
             /\ checkout.push_string = NoPush
             /\ ("upstream" \in wc[idx].remotes) <=> decl[idx].upstream
        ELSE IF decl[idx].upstream
        THEN /\ checkout.strategy = "upstream"
             /\ checkout.push_string = PUSH_COPY
             /\ wc[idx].exists => wc[idx].remotes = {"upstream", "origin"}
        ELSE /\ checkout.strategy = "init"
             /\ checkout.push_string = PUSH_HEAD

\* C18: when the project is listed by the review service and its clone
\* failed, make_local_copy of a project with an upstream takes the upstream
\* strategy and returns that strategy's push spec.
C18_CloneFailureFallsThrough ==
    /\ checkout.listed
    /\ checkout.clone \in {"fail", "raise"}
    /\ decl[idx].upstream
    /\ exc # "make_local_copy"
    => /\ checkout.strategy = "upstream"
       /\ checkout.push_string = PUSH_COPY

\* C19: when the fresh-init strategy returned its push spec, the descriptor
\* file .gitreview is committed on the branch that HEAD names, so that the
\* HEAD the caller pushes holds it.
C19_DescriptorCommitted ==
    pc = "mirror" /\ checkout.strategy = "init" /\ checkout.push_string = PUSH_HEAD =>
        /\ ".gitreview" \in wc[idx].committed
        /\ wc[idx].head \in wc[idx].branches

\* C20: a working copy obtained by make_local_copy (by any of the three
\* strategies) has the committer identity set, and the commit that
\* make_local_copy makes is made with the identity already set.
C20_IdentitySet ==
    checkout.strategy # "none" =>
        /\ wc[idx].exists => wc[idx].user
        /\ checkout.committer # "unset"

\* C20 witness: the fresh-init strategy committed the descriptor with the
\* identity set.
C20_Witness ==
    /\ pc = "mirror"
    /\ checkout.strategy = "init"
    /\ checkout.committer = "set"
    /\ ".gitreview" \in wc[idx].committed
    /\ wc[idx].user

\* ---------------------------------------------------------------------
\* C21: during a Driver run the persisted cache file is written at most
\* once, as the whole table, and only after the last declared project has
\* been processed: the file changes only on the step that leaves the
\* settings context, that step stores the entire in-memory table and ends
\* the run; at every earlier point of the run the file is what it was
\* when the run started.
C21_WriteStep ==
    (cacheFile' # cacheFile) =>
        (/\ pc = "flush"
         /\ pc' = "idle"
         /\ idx = NumProjects + 1
         /\ Len(visited) = NumProjects
         /\ cacheFile' = cache)

C22_WrappersDeleted ==
    (pc = "idle" /\ run >= 1) =>
        /\ ssh_wrappers = {}
        /\ GitSshEnv(run) \notin ssh_wrappers

\* ---------------------------------------------------------------------
\* C23: every project that reaches step 4 has create_local_mirror invoked,
\* whatever the cache says; an existing mirror is left as it is and no
\* 'git --bare init' runs for it; an absent mirror is initialised; when
\* the initialisation fails the mirror directory is removed and the
\* project is abandoned for the run.  Nothing else touches a mirror.
C23_Step ==
    /\ (mirror' # mirror) => pc = "mirror"
    /\ (pc = "mirror") =>
        /\ \A q \in Projects \ {idx} : mirror'[q] = mirror[q]
        /\ Len(ev') > Len(ev)
        /\ ev'[Len(ev) + 1] = "create_local_mirror"
        /\ mirror[idx] =>
              /\ mirror'[idx]
              /\ ev' = ev \o <<"create_local_mirror">>
              /\ pc' = "acl"
        /\ ~mirror[idx] =>
              \/ /\ ev' = ev \o <<"create_local_mirror", "git_bare_init">>
                 /\ mirror'[idx]
                 /\ pc' = "acl"
              \/ /\ ev' = ev \o <<"create_local_mirror", "git_bare_init", "remove_mirror_dir">>
                 /\ ~mirror'[idx]
                 /\ pc' = "exit"
                 /\ exc' = "mirror"

C23_MirrorEnsured == [][C23_Step]_vars

\* a mirror kept from an earlier run is passed over, for a project the
\* cache records as pushed and for one whose initialisation failed before
C23_Witness ==
    /\ run = 2
    /\ pc = "acl"
    /\ mirror[idx]
    /\ cacheFile[idx].pushed = "true"
    /\ ev = <<"create_local_mirror">>

C23_FailureWitness ==
    /\ pc = "exit"
    /\ exc = "mirror"
    /\ ~mirror[idx]
    /\ InEv("remove_mirror_dir")

\* ---------------------------------------------------------------------
\* C24: inside the ACL transaction, groups are resolved and the groups
\* mapping file is written only if copying the ACL file into
\* project.config changed the tree relative to HEAD.  When the copy leaves
\* the tree unchanged, no group is looked up or created, and the release
\* commits nothing and pushes nothing.
C24_TreeUnchanged(w) == w.exists /\ w.pending = {}

C24_Step ==
    /\ (pc = "txn_body" /\ txn.kind = "acl") =>
          /\ InEv("create_groups_file")' <=> ~C24_TreeUnchanged(wc'[idx]) \/ "groups" \in wc'[idx].pending
          /\ (metaAcl[idx] = AclSha(idx) /\ C24_TreeUnchanged(wc[idx])) =>
                /\ C24_TreeUnchanged(wc'[idx])
                /\ ev' = ev \o <<"copy_acl">>
                /\ gerritGroups' = gerritGroups
                /\ txn'.lookups = 0
                /\ txn'.created = {}
                /\ txn'.raised = "none"
          /\ (metaAcl[idx] # AclSha(idx)) => InEv("create_groups_file")'
    /\ (pc = "txn_exit" /\ txn.kind = "acl" /\ ~InEv("create_groups_file")) =>
          /\ ev' = ev \o <<"acl_no_changes", "cleanup">>
          /\ txn'.result = "none"
          /\ wc'[idx].committed = wc[idx].committed
          /\ remote' = remote

C24_DirtyWitness ==
    /\ pc = "txn_exit"
    /\ txn.kind = "acl"
    /\ InEv("create_groups_file")
    /\ txn.created # {}

\* ---------------------------------------------------------------------
\* C25: a declared project that the command-line filter excludes, or that
\* has the 'no-gerrit' option, causes no review-service call, no git
\* operation and no hosting-service call during the run, and no field of
\* its cache record is set or changed.
C25_Skipped(p) == (filter # {} /\ p \notin filter) \/ decl[p].noGerrit

C25_Step ==
    (idx \in Projects /\ C25_Skipped(idx) /\ pc \notin {"idle", "flush"}) =>
        /\ pc \in {"enter", "exit"}
        /\ ev = <<>> /\ ev' = <<>>
        /\ remote' = remote
        /\ mirror' = mirror
        /\ wc' = wc
        /\ ssh_wrappers' = ssh_wrappers
        /\ checkout' = NoCheckout
        /\ txn' = NoTxn
        /\ Fields(cache'[idx]) = Fields(cache[idx])

C25_Record ==
    (pc # "idle") =>
        \A p \in Projects : C25_Skipped(p) => Fields(cache[p]) = Fields(cacheFile[p])

C25_SkippedUntouched == []C25_Record /\ [][C25_Step]_vars

C25_Witness ==
    /\ pc = "flush"
    /\ run = 2
    /\ decl[1].noGerrit
    /\ cache[1].present
    /\ Fields(cache[1]) = Fields(NoRecord)
    /\ cache[2].pushed = "true"

\* ---------------------------------------------------------------------
\* C26: when project creation fails at step 2, the cache records the
\* failure (project-created is not true), no later step runs for that
\* project in this run, and the next run attempts the creation again.
C26_Step ==
    /\ (pc = "create" /\ pc' = "exit") =>
          /\ exc' = "create_failed"
          /\ cache'[idx].created = "false"
          /\ ev' = <<"create_project", "create_failed">>
          /\ remote' = remote /\ mirror' = mirror /\ wc' = wc
    /\ (pc = "exit" /\ exc = "create_failed") =>
          /\ cache[idx].created = "false"
          /\ ev = <<"create_project", "create_failed">>
          /\ pc' = "enter" /\ idx' = idx + 1
          /\ cache' = cache
          /\ remote' = remote /\ mirror' = mirror
    /\ (pc = "create" /\ cache[idx].created = "false") =>
          /\ Len(ev') >= 1
          /\ ev'[1] = "create_project"

C26_CreationFailure == [][C26_Step]_vars

\* the creation failed in the first run, was attempted again in the
\* second one and succeeded
C26_Witness ==
    /\ run = 2
    /\ pc = "push"
    /\ cacheFile[idx].created = "false"
    /\ cache[idx].created = "true"
    /\ ev = <<"create_project">>

\* ---------------------------------------------------------------------
\* C27: in step 3 a project that is not yet marked pushed goes through, in
\* this order: removal of any working copy, make_local_copy, fsck_repo,
\* the push (only when make_local_copy returned a push spec), the setting
\* of 'pushed-to-gerrit', and then replication if and only if replication
\* is enabled.  For a project already marked pushed none of them happens.
C27_Replication == IF replicate THEN <<"replicate">> ELSE <<>>

C27_Step ==
    (pc = "push") =>
        IF cache[idx].pushed = "true"
        THEN /\ ev' = ev
             /\ wc' = wc
             /\ checkout' = checkout
             /\ cache' = cache
             /\ remote' = remote
             /\ pc' = "mirror"
        ELSE /\ pc' \in {"mirror", "exit"}
             /\ (pc' = "mirror") =>
                   /\ \E x \in {"cloned", "import_push_ok", "import_push_failed"} :
                        /\ ev' = ev \o <<"remove_wc", "make_local_copy", "fsck_clean", x,
                                         "set_pushed">> \o C27_Replication
                        /\ (x = "cloned") <=> (checkout'.push_string = NoPush)
                   /\ cache'[idx].pushed = "true"
             /\ (pc' = "exit") =>
                   /\ \/ ev' = ev \o <<"remove_wc", "make_local_copy", "make_local_copy_raised">>
                      \/ ev' = ev \o <<"remove_wc", "make_local_copy", "fsck_bad">>
                   /\ cache' = cache
                   /\ remote' = remote

C27_ImportOrder == [][C27_Step]_vars

C27_Witness ==
    /\ pc = "mirror"
    /\ ~replicate
    /\ checkout.push_string # NoPush
    /\ ev = <<"create_project", "remove_wc", "make_local_copy", "fsck_clean",
              "import_push_failed", "set_pushed">>

C27_PushedWitness ==
    /\ pc = "mirror"
    /\ run = 2
    /\ cacheFile[idx].pushed = "true"
    /\ ev = <<>>
    /\ checkout = NoCheckout

\* ---------------------------------------------------------------------
\* C30: after the hosting-side reconciliation of a project, replication is
\* triggered again if and only if create_update_github_project returned
\* True and replication is enabled; when the cache already records the
\* repository as created, the team as linked and the has-issues,
\* has-wiki and has-downloads values equal to the desired ones, no
\* hosting-service call is made and no replication is triggered.
C30_CacheComplete(p) ==
    /\ cache[p].ghCreated
    /\ cache[p].ghTeam
    /\ cache[p].ghHas = [present |-> TRUE, v |-> HasFlags(decl[p])]

C30_Step ==
    (pc = "github") =>
        LET new == SubSeq(ev', Len(ev) + 1, Len(ev'))
            has(e) == \E i \in DOMAIN new : new[i] = e
        IN  /\ ev' = ev \o new
            /\ has("replicate") <=> (has("github_returned_true") /\ replicate)
            /\ has("replicate") => new[Len(new)] = "replicate"
            /\ has("github_returned_true") =>
                  /\ cache'[idx].ghCreated /\ cache'[idx].ghTeam
                  /\ ~cache[idx].ghTeam \/ has("create_repo")
            /\ (~decl[idx].github \/ C30_CacheComplete(idx)) =>
                  /\ new = <<>>
                  /\ cache' = cache

C30_ReplicatedWitness ==
    /\ pc = "exit"
    /\ replicate
    /\ Len(ev) >= 2
    /\ ev[Len(ev)] = "replicate"
    /\ ev[Len(ev) - 1] = "github_returned_true"
    /\ ~InEv("create_repo")

\* ---------------------------------------------------------------------
\* C28 as stated: in sync_upstream a failure of the branch push or of the
\* tag push is never raised and never retried; each push is attempted
\* exactly once, the tag push also when the branch push failed, and the
\* run continues with the next project.
C28_BranchPushEvents == {"push_branches_ok", "push_branches_failed", "push_branches_raised"}
C28_TagPushEvents == {"push_tags_ok", "push_tags_failed", "push_tags_raised"}
C28_Count(s, E) == Cardinality({i \in DOMAIN s : s[i] \in E})

C28_Continues ==
    /\ (pc = "t_sync") => (pc' = "t_exit" /\ exc' = "none")
    /\ (pc = "t_exit" /\ InEv("sync_upstream")) =>
          (pc' = "t_enter" /\ idx' = idx + 1 /\ exc = "none")

C28_Step ==
    /\ C28_Continues
    /\ (pc = "t_sync") =>
          /\ C28_Count(ev', C28_BranchPushEvents) = 1
          /\ C28_Count(ev', C28_TagPushEvents) = 1

C28_AmendedStep ==
    /\ C28_Continues
    /\ (pc = "t_sync") =>
          /\ C28_Count(ev', C28_BranchPushEvents) = 1
          /\ C28_Count(ev', C28_TagPushEvents) =
                 IF "push_branches_raised" \in {ev'[i] : i \in DOMAIN ev'} THEN 0 ELSE 1
          /\ ("push_error_logged" \in {ev'[i] : i \in DOMAIN ev'}) <=>
                 (\E i \in DOMAIN ev' : ev'[i] \in {"push_branches_raised", "push_tags_raised"})

C29_DefaultBranch(w) == IF w.origin_head # <<>> THEN Join(w.origin_head) ELSE "master"

C29_Remote ==
    (pc = "u_ready" /\ exc' = "none") =>
        /\ ("upstream" \in wc'[1].remotes) <=> decl[1].track
        /\ decl[1].track => wc'[1].upstream_url = "configured"
        /\ ~decl[1].track => wc'[1].upstream_url = "none"

C29_Branch ==
    (pc = "u_ready" /\ exc' = "none") =>
        /\ C29_DefaultBranch(wc[1]) \in wc'[1].branches
        /\ C29_DefaultBranch(wc[1]) \notin wc'[1].ahead
        /\ wc'[1].head = C29_DefaultBranch(wc[1])

C29_Step == C29_Remote /\ C29_Branch

C29_UpdateLocalCopy == [][C29_Step]_vars

\* the two parts apart, and the second one for default branches whose
\* name has no component 'origin'
C29_RemotePart == [][C29_Remote]_vars

C29_BranchPartPlainNames ==
    [][(wc[1].origin_head # <<"origin", "stable">>) => C29_Branch]_vars

\* ------------------------------------------------------------------ C31
\* the entries at depth 2 whose name ends with the extension
C31_Depth2(ext) == {e \in fs.tree : Len(e.path) = 2 /\ e.path[2].ext = ext}
\* those of them that glob lists: no component of the path starts with a dot
C31_Listed(ext) == {e \in C31_Depth2(ext) : ~e.path[1].hidden /\ ~e.path[2].hidden}

\* C31 as stated: after a call the result maps exactly the files at depth 2
\* below the root whose name ends with the extension to their digest.
C31_ExactlyDepth2Files ==
    pc = "s_hashed" =>
        /\ ~sha_cache.raised
        /\ DOMAIN sha_cache.map = {e.path : e \in {f \in C31_Depth2(fs.ext) : f.kind = "file"}}
        /\ \A e \in C31_Depth2(fs.ext) :
              e.kind = "file" => sha_cache.map[e.path] = Digest(e.content)

\* the result is a function of the tree alone, whatever the order of the
\* listing: the call raises when a listed entry is a directory, otherwise it
\* maps exactly the listed entries to the digest of their content
C31_Mapping ==
    pc = "s_hashed" =>
        IF \E e \in C31_Listed(fs.ext) : e.kind = "dir"
        THEN sha_cache.raised
        ELSE /\ ~sha_cache.raised
             /\ DOMAIN sha_cache.map = {e.path : e \in C31_Listed(fs.ext)}
             /\ \A e \in C31_Listed(fs.ext) : sha_cache.map[e.path] = Digest(e.content)

\* a second call on the unmodified tree gives the same result
C31_TwiceStep == (pc = "s_hashed" /\ pc' = "s_hashed") => sha_cache' = sha_cache

\* a call after the content of a hashed file was changed gives that file
\* another digest and leaves the digests of the other files alone
C31_ChangeStep ==
    (pc = "s_modified" /\ pc' = "s_hashed" /\ ~sha_cache.raised) =>
        /\ ~sha_cache'.raised
        /\ DOMAIN sha_cache'.map = DOMAIN sha_cache.map
        /\ \A k \in DOMAIN sha_cache.map :
              (sha_cache'.map[k] # sha_cache.map[k]) <=> (k = ev[1])

C31_Step == C31_TwiceStep /\ C31_ChangeStep

\* C31 (amended): generate_sha_for_dir is a function of the tree: it maps
\* exactly the entries at depth 2 whose name ends with the extension and
\* none of whose two path components starts with a dot to the digest of
\* their content, and raises when one of them is a directory; hashing an
\* unmodified tree twice gives the same mapping, changing a hashed file's
\* content changes its digest and no other, and the order of the listing
\* does not matter.
C31_ShaOfListedFiles == []C31_Mapping /\ [][C31_Step]_vars

\* a tree with a hidden file at depth 2, hashed, a hashed file modified,
\* hashed again with two files in the mapping
C31_Witness ==
    /\ pc = "s_hashed"
    /\ run = 2
    /\ ev # <<>>
    /\ ev[1] \in DOMAIN sha_cache.map
    /\ Cardinality(DOMAIN sha_cache.map) = 2
    /\ C31_Depth2(fs.ext) # C31_Listed(fs.ext)

\* ------------------------------------------------------------------ C32
\* the end of a project's processing in manage_projects leaves its working
\* copy in place
C32_KeepStep == pc = "exit" => wc' = wc

\* C32 in manage_projects: with --nocleanup given, no project's working
\* copy is removed at the end of its processing.
C32_NoCleanupKeepsCopies == [][nocleanup => C32_KeepStep]_vars

C32_RemoveStep == (~nocleanup /\ pc = "exit") => ~wc'[idx].exists

\* the second half of C32: without the flag manage_projects removes the
\* working copy at every end of a project's processing
C32_DriverRemoves == [][C32_RemoveStep]_vars

C32_TrackKeepStep == (nocleanup /\ pc = "t_exit") => wc' = wc

\* the first half of C32 in track_upstream: with the flag no working copy is
\* removed
C32_TrackerKeeps == [][C32_TrackKeepStep]_vars

\* ------------------------------------------------------------------ C33
\* the run reached the ACL step of a project that the persisted cache marks
\* created and pushed and whose ACL file's hash differs from the cached one
C33_ChangedAcl ==
    /\ pc \in {"acl", "txn_fetch", "txn_ls", "txn_body", "txn_exit"}
    /\ idx \in Projects
    /\ decl[idx].acl # "none"
    /\ cacheFile[idx].created = "true"
    /\ cacheFile[idx].pushed = "true"
    /\ cacheFile[idx].acl # StrV(AclSha(idx))

\* C33: when a project is already marked created and pushed in the cache and
\* its ACL file's hash differs from the cached 'acl-sha', the transaction of
\* process_acls finds a usable working copy for the project (without one no
\* run can push the new project.config).
C33_UsableWorkingCopy == C33_ChangedAcl => wc[idx].exists

\* in that case the transaction never gets past fetch_meta_config, whatever
\* the remote and git operations do: the body and the push are not reached
C33_NeverApplied == C33_ChangedAcl => pc \in {"acl", "txn_fetch"}

C33_NotRecordedStep ==
    (C33_ChangedAcl /\ pc' = "exit") => cache'[idx].acl = cacheFile[idx].acl /\ metaAcl' = metaAcl
\* and the run ends the project with the ACL not pushed and the hash not
\* recorded
C33_NotRecorded == [][C33_NotRecordedStep]_vars

\* ------------------------------------------------------------------ C34
\* a step that pushes a changed project.config to refs/meta/config
C34_PushesAcl == pc = "txn_exit" /\ txn.kind = "acl" /\ metaAcl'[idx] # metaAcl[idx]

C34_Step ==
    C34_PushesAcl =>
        /\ txn.raised = "none"
        /\ AclGroups(idx) # {} => "groups" \in wc[idx].pending

\* C34: a changed project.config is pushed to refs/meta/config only when
\* every group it references was resolved and the groups file was staged in
\* the same commit; when the resolution of a group fails nothing is pushed.
C34_PushOnlyWithGroups == [][C34_Step]_vars

C34_ResolvedStep ==
    (C34_PushesAcl /\ txn.raised = "none") =>
        (AclGroups(idx) # {} => "groups" \in wc[idx].pending)
\* the part of C34 that holds: a push after a resolution that succeeded
\* carries the groups file
C34_ResolvedPushHasGroups == [][C34_ResolvedStep]_vars

\* ------------------------------------------------------------------ C35
\* the step of __enter__ that raises FetchConfigException
C35_RaiseStep ==
    (pc \in {"txn_fetch", "txn_ls"} /\ txn'.raised = "FetchConfigException") =>
        /\ pc' = "exit"
        /\ exc' = "FetchConfigException"
        /\ cache' = cache
        /\ remote' = remote
        /\ wc'[idx].committed = wc[idx].committed
        /\ wc'[idx].pending = wc[idx].pending

\* the step after it: the project is left, nothing is recorded
C35_SkipStep ==
    (pc = "exit" /\ exc = "FetchConfigException") =>
        /\ pc' = "enter"
        /\ idx' = idx + 1
        /\ cache' = cache
        /\ remote' = remote

C35_Step == C35_RaiseStep /\ C35_SkipStep

\* the state the exception leaves: no body, commit or push event of the
\* transaction, and the hash of the file still differs from the cached one
C35_Aborted ==
    (pc = "exit" /\ exc = "FetchConfigException") =>
        /\ txn.kind \in {"acl", "prolog"}
        /\ txn.result = "none"
        /\ txn.kind = "acl" =>
              /\ AclDue(idx)
              /\ \A i \in DOMAIN ev :
                    ev[i] \notin {"copy_acl", "acl_no_changes", "acl_push_ok",
                                  "acl_push_failed", "acl_commit_failed"}
        /\ txn.kind = "prolog" =>
              /\ PrologDue(idx)
              /\ \A i \in DOMAIN ev :
                    ev[i] \notin {"copy_rules", "rules_no_changes", "rules_push_ok",
                                  "rules_push_failed", "rules_commit_failed"}

\* C35: when fetch_meta_config raises FetchConfigException in process_acls
\* or process_prolog_rules, the body of the transaction does not run, nothing
\* is committed or pushed, the cached hash stays as it was (so the step is
\* due again in the next run) and the remaining steps of the project are
\* skipped.
C35_AcquisitionFailure == []C35_Aborted /\ [][C35_Step]_vars

\* the ACL transaction of a second run failed to acquire after the one of
\* the first run had failed
C35_Witness ==
    /\ pc = "exit"
    /\ exc = "FetchConfigException"
    /\ txn.kind = "acl"
    /\ run = 2
    /\ cacheFile[idx].pushed = "true"

\* the same in the transaction of the policy rules
C35_PrologWitness ==
    /\ pc = "exit"
    /\ exc = "FetchConfigException"
    /\ txn.kind = "prolog"

\* ------------------------------------------------------------------ C36
\* a flag that is true stays true, in the cache of the run and in the file
C36_MonotonicStep ==
    \A p \in Projects :
        /\ cache[p].created = "true" => cache'[p].created = "true"
        /\ cache[p].pushed = "true" => cache'[p].pushed = "true"
        /\ cacheFile[p].created = "true" => cacheFile'[p].created = "true"
        /\ cacheFile[p].pushed = "true" => cacheFile'[p].pushed = "true"

\* 'pushed-to-gerrit' is true only with 'project-created' true
C36_Ordered ==
    \A p \in Projects :
        /\ cache[p].pushed = "true" => cache[p].created = "true"
        /\ cacheFile[p].pushed = "true" => cacheFile[p].created = "true"

\* C36: over any sequence of Driver runs that starts from an empty cache,
\* 'project-created' and 'pushed-to-gerrit' never go from true to false or
\* absent, and 'pushed-to-gerrit' is true only if 'project-created' is true
\* for the same project.
C36_FlagsMonotonic == []C36_Ordered /\ [][C36_MonotonicStep]_vars

\* a second run is under way on a persisted cache with both flags true for
\* one project and a failed creation recorded for the other
C36_Witness ==
    /\ run = 2
    /\ pc = "enter"
    /\ \E p, q \in Projects :
          /\ cacheFile[p].created = "true" /\ cacheFile[p].pushed = "true"
          /\ cacheFile[q].created = "false" /\ cacheFile[q].pushed = "absent"

\* ------------------------------------------------------------------ C37
\* the project at idx passes the four tests of track_upstream
C37_Tracked ==
    /\ idx \in Projects
    /\ filter = {} \/ idx \in filter
    /\ ~decl[idx].noGerrit
    /\ decl[idx].track
    /\ cacheFile[idx].pushed = "true"

\* fsck_repo and sync_upstream are at hand or have run only for such a
\* project; sync_upstream comes right after a clean fsck_repo, and nothing
\* follows a failed one
C37_OnlyTracked ==
    /\ (pc \in {"t_copy", "t_fsck", "t_sync"}) => C37_Tracked
    /\ \A i \in DOMAIN ev :
          /\ ev[i] \in {"fsck_bad", "fsck_clean", "sync_upstream"} => C37_Tracked
          /\ ev[i] = "sync_upstream" => i > 1 /\ ev[i - 1] = "fsck_clean"
          /\ ev[i] = "fsck_bad" => i = Len(ev) /\ pc = "t_exit"
          /\ ev[i] = "fsck_clean" => (i = Len(ev) /\ pc = "t_sync") \/ ev[i + 1] = "sync_upstream"

\* no step of track_upstream writes the persisted cache file
C37_NoWriteStep == cacheFile' = cacheFile

\* C37: track_upstream never writes the persisted cache file; fsck_repo and
\* sync_upstream run only for a project that passes the filter, has no
\* 'no-gerrit', has 'track-upstream' and is recorded as pushed; for such a
\* project fsck_repo runs before sync_upstream, and sync_upstream does not
\* run when fsck_repo fails.
C37_TrackerGates == []C37_OnlyTracked /\ [][C37_NoWriteStep]_vars

\* a tracked project was synchronised after a clean fsck_repo, in a run
\* that skipped the other project
C37_Witness ==
    /\ pc = "t_exit"
    /\ C37_Tracked
    /\ \E i \in DOMAIN ev : ev[i] = "sync_upstream"
    /\ \E q \in Projects : q # idx /\ cacheFile[q].pushed # "true"

\* fsck_repo failed for a tracked project
C37_FsckWitness ==
    /\ pc = "t_exit"
    /\ C37_Tracked
    /\ Len(ev) > 0
    /\ ev[Len(ev)] = "fsck_bad"

\* ------------------------------------------------------------------ C38
\* '<prefix>/<branch>' when the project sets a prefix, '<branch>' otherwise
C38_Name(p, b) ==
    IF decl[p].prefix
    THEN CASE b = "master" -> "vendor/master"
           [] b = "stable" -> "vendor/stable"
           [] OTHER -> "vendor/other"
    ELSE b

\* the local branches a run of sync_upstream has to create or reset: one for
\* every branch of the remote 'upstream' in the working copy it leaves
C38_Expected == {C38_Name(idx, b) : b \in wc'[idx].upstream_refs}

C38_Pos(s, E) == {i \in DOMAIN s : s[i] \in E}

C38_Step ==
    pc = "t_sync" =>
        /\ wc'[idx].branches = wc[idx].branches \cup C38_Expected
        /\ wc'[idx].ahead \cap C38_Expected = {}
        /\ Cardinality(C38_Pos(ev', {"checkout_B"})) = Cardinality(wc'[idx].upstream_refs)
        /\ {ev'[i + 1] : i \in C38_Pos(ev', {"checkout_B"})} = C38_Expected
        /\ \A i \in C38_Pos(ev', {"checkout_B"}) :
           \A j \in C38_Pos(ev', {"push_branches_ok", "push_branches_failed",
                                  "push_branches_raised"}) : i < j

\* C38: sync_upstream creates or resets one local branch for every branch of
\* the remote 'upstream' and none for a symbolic entry, named
\* '<prefix>/<branch>' with a prefix and '<branch>' without, and all of them
\* before the push of refs/heads/* to origin is attempted.
C38_BranchesBeforePush == [][C38_Step]_vars

\* sync_upstream ran with a prefix on a working copy whose listing has a
\* symbolic upstream entry and two upstream branches, and pushed
C38_Witness ==
    /\ pc = "t_exit"
    /\ idx \in Projects
    /\ decl[idx].prefix
    /\ wc[idx].upstream_head # <<>>
    /\ wc[idx].upstream_refs = {"master", "stable"}
    /\ {"vendor/master", "vendor/stable"} \subseteq wc[idx].branches
    /\ InEv("checkout_B")
    /\ InEv("push_branches_ok")

\* the same without a prefix
C38_PlainWitness ==
    /\ pc = "t_exit"
    /\ idx \in Projects
    /\ ~decl[idx].prefix
    /\ {"master", "stable"} \subseteq wc[idx].branches
    /\ InEv("checkout_B")

\* ------------------------------------------------------------------ C39
C39_Count(s, e) == Cardinality({i \in DOMAIN s : s[i] = e})

\* createGroup was issued and raised: the call ended there
C39_CreationRaised == exc' = "create_group" /\ ev'[Len(ev')] = "createGroup"

C39_Step ==
    pc = "g_ready" =>
        /\ ev'[1] = "listGroups"
        /\ C39_Count(ev', "listGroups") = 1
        /\ C39_Count(ev', "createGroup") = IF call.name \in gerritGroups THEN 0 ELSE 1
        /\ call.name \in gerritGroups => gerritGroups' = gerritGroups
        /\ gerritGroups \subseteq gerritGroups'
        /\ ~C39_CreationRaised =>
              /\ C39_Count(ev', "add_group_members") = IF call.members # {} THEN 1 ELSE 0
              /\ C39_Count(ev', "add_internal_include_groups") =
                     IF call.subgroups # {} THEN 1 ELSE 0
              /\ (C39_Count(ev', "add_include_groups") >= 1) <=> (call.ldap_groups # {})

\* C39: create_group issues a group creation only when the name is absent
\* from the listing it reads at the start of the call, so a call for a
\* listed group creates nothing; the requests that add the given members,
\* sub-groups and LDAP groups are issued whether the group was just created
\* or was already there.
C39_CreateOnlyWhenAbsent == [][C39_Step]_vars

\* a second call, for a group that is listed: no creation, and the three
\* kinds of members were requested
C39_Witness ==
    /\ pc = "g_done"
    /\ run = 2
    /\ call.name \in gerritGroups
    /\ ~InEv("createGroup")
    /\ InEv("add_group_members")
    /\ InEv("add_internal_include_groups")
    /\ InEv("add_include_groups")

\* a call that created the group and requested the three kinds of members
C39_CreatedWitness ==
    /\ pc = "g_done"
    /\ InEv("createGroup")
    /\ InEv("add_group_members")
    /\ InEv("add_internal_include_groups")
    /\ InEv("add_include_groups")

====
